---------------------------- MODULE Spec2Model ----------------------------
(***************************************************************************)
(* Model of the XDC privacy layer's cryptographic core (the encryption     *)
(* service: envelopes, commitments, signatures, field-level disclosure)    *)
(* and of the route handlers that verify commitments and disclosures.      *)
(*                                                                         *)
(* Library primitives (AES-256-GCM, secp256k1, keccak256, sha256) are      *)
(* modelled symbolically: a digest is an injective function of its         *)
(* preimage, a ciphertext opens only under the key, iv and tag it was      *)
(* made with, and ECDH is the unordered pair of the two scalars.           *)
(*                                                                         *)
(* A JavaScript string is a sequence of tokens.  A token is either a       *)
(* run of literal characters [c |-> "..."] or the hex encoding of a byte   *)
(* buffer [hexof |-> buffer, up |-> upper-case?].                          *)
(***************************************************************************)
EXTENDS Integers, Sequences, FiniteSets, Bags, TLC

(***************************************************************************)
(* Bounds of the model.                                                    *)
(***************************************************************************)
NumParties    == 3   \* identity key pairs 1..NumParties
MaxRecipients == 2   \* longest recipient list given to createEncryptedEnvelope
MaxFields     == 2   \* most fields in a payload
NumRandom     == 2   \* distinct values each random draw may take
MaxRequests   == 3   \* sign and commit requests the service takes up
NumConnections == 2  \* WebSocket connections 1..NumConnections
MaxTime       == 2   \* readings of Date.now() are 1..MaxTime
MaxListed     == 3   \* longest adminDomains and domainParticipants array

(***************************************************************************)
(* Strings, buffers and hex.                                               *)
(***************************************************************************)
Str(s) == <<[c |-> s]>>

EmptyString == << >>

\* Buffer.toString('hex') / BN.toString('hex'): lower-case hex of the bytes
ToHex(buf) == <<[hexof |-> buf, up |-> FALSE]>>

\* a buffer of no bytes
EmptyBuffer == [empty |-> TRUE]

\* Buffer.from(s, 'hex'): hex digits decode the same in either case, and
\* decoding stops at the first character that is no hex digit
BufferFromHex(s) ==
    IF s # << >> /\ "hexof" \in DOMAIN s[1] THEN s[1].hexof ELSE EmptyBuffer

\* the same hex digits written in upper case
UpperHex(s) == [i \in DOMAIN s |->
                  IF "up" \in DOMAIN s[i] THEN [s[i] EXCEPT !.up = TRUE]
                  ELSE IF s[i] = [c |-> "0x"] THEN [c |-> "0X"] ELSE s[i]]

\* String.prototype.toLowerCase
ToLowerCase(s) == [i \in DOMAIN s |->
                     IF "up" \in DOMAIN s[i] THEN [s[i] EXCEPT !.up = FALSE]
                     ELSE IF s[i] = [c |-> "0X"] THEN [c |-> "0x"] ELSE s[i]]

\* keccak256(x): 64 lower-case hex characters of the digest of x
keccak256(x) == ToHex([keccak |-> x])

\* crypto.createHash('sha256').update(x).digest(): a 32-byte buffer
sha256(x) == [sha256 |-> x]

(***************************************************************************)
(* JavaScript objects and JSON.  An object is the sequence of its          *)
(* (key, value) entries in insertion order; a scalar value is a number     *)
(* literal or a string.                                                    *)
(***************************************************************************)
Num(lit)  == [t |-> "number", lit |-> lit]
StrVal(s) == [t |-> "string", s |-> s]

Undefined == [t |-> "undefined"]

EmptyObject == << >>

ObjKeys(obj) == [i \in DOMAIN obj |-> obj[i].k]

ObjHas(obj, key) == \E i \in DOMAIN obj : obj[i].k = key

\* obj[key]
ObjGet(obj, key) ==
    IF ObjHas(obj, key)
    THEN obj[CHOOSE i \in DOMAIN obj : obj[i].k = key].v
    ELSE Undefined

\* obj[key] = value: an existing key keeps its place, a new key goes last
ObjSet(obj, key, value) ==
    IF ObjHas(obj, key)
    THEN [i \in DOMAIN obj |-> IF obj[i].k = key THEN [k |-> key, v |-> value] ELSE obj[i]]
    ELSE Append(obj, [k |-> key, v |-> value])

Quote == [c |-> "\""]

JSONStringifyValue(v) ==
    IF v.t = "number" THEN Str(v.lit)
    ELSE <<Quote>> \o v.s \o <<Quote>>

RECURSIVE JSONMembers(_)
JSONMembers(obj) ==
    IF obj = << >> THEN << >>
    ELSE LET e == obj[1]
             m == <<Quote>> \o e.k \o <<Quote>> \o Str(":") \o JSONStringifyValue(e.v)
         IN  IF Len(obj) = 1 THEN m
             ELSE m \o Str(",") \o JSONMembers(Tail(obj))

\* JSON.stringify(object): members in the object's own key order
JSONStringify(obj) == Str("{") \o JSONMembers(obj) \o Str("}")

\* index of the first '"' token at or after position i
NextQuote(toks, i) ==
    CHOOSE j \in i..Len(toks) :
        /\ toks[j] = Quote
        /\ \A m \in i..(j-1) : toks[m] # Quote

RECURSIVE JSONParseMembers(_, _, _)
JSONParseMembers(toks, i, acc) ==
    IF toks[i] = [c |-> "}"] THEN acc
    ELSE IF toks[i] = [c |-> ","] THEN JSONParseMembers(toks, i + 1, acc)
    ELSE LET kEnd == NextQuote(toks, i + 1)
             key  == SubSeq(toks, i + 1, kEnd - 1)
             vAt  == kEnd + 2
         IN  IF toks[vAt] = Quote
             THEN LET vEnd == NextQuote(toks, vAt + 1)
                  IN  JSONParseMembers(toks, vEnd + 1,
                          ObjSet(acc, key, StrVal(SubSeq(toks, vAt + 1, vEnd - 1))))
             ELSE JSONParseMembers(toks, vAt + 1,
                          ObjSet(acc, key, Num(toks[vAt].c)))

\* JSON.parse of the text of an object
JSONParse(toks) == JSONParseMembers(toks, 2, EmptyObject)

(***************************************************************************)
(* Keys.  A private key is the hex of a scalar, a public key the hex of    *)
(* the curve point of that scalar.                                         *)
(***************************************************************************)
PartyScalars == 1..NumParties

Rnd == 1..NumRandom

\* scalars drawn by ec.genKeyPair() for ephemeral keys; never a party's scalar
EphemeralScalar(r) == 100 + r

\* ec.keyFromPrivate(hex).getPublic(): the point of the scalar
PointOf(scalar) == [point |-> scalar]

\* generateKeyPair(): the pair of the drawn scalar
generateKeyPair(scalar) ==
    [privateKey |-> ToHex([scalar |-> scalar]),
     publicKey  |-> ToHex(PointOf(scalar))]

\* ec.keyFromPublic(hex, 'hex').getPublic()
keyFromPublic(publicKey) == BufferFromHex(publicKey)

\* ec.keyFromPrivate(hex, 'hex'): the scalar
keyFromPrivate(privateKey) == BufferFromHex(privateKey).scalar

\* key.derive(point): ECDH, the same for (a, B) and (b, A)
derive(scalar, point) == [ecdh |-> {scalar, point.point}]

\* generateDEK(): 32 random bytes
generateDEK(r) == [dek |-> r]

\* variant: the digest taken of no bytes, the same for every key
hashPublicKeyCollide(publicKey) == ToHex([keccak |-> << >>, first |-> 20])

\* hashPublicKey: first 40 hex characters of keccak256 of the decoded key
hashPublicKey(publicKey) ==
    ToHex([keccak |-> BufferFromHex(publicKey), first |-> 20])

(***************************************************************************)
(* AES-256-GCM.                                                            *)
(***************************************************************************)
\* encryptWithAES(data, key) with the 12 random iv bytes drawn as r
encryptWithAES(data, key, r) ==
    [ciphertext |-> ToHex([aes |-> data, key |-> key, iv |-> [iv |-> r]]),
     iv         |-> ToHex([iv |-> r]),
     authTag    |-> ToHex([tag |-> data, key |-> key, iv |-> [iv |-> r]])]

AuthFailed == Str("Unsupported state or unable to authenticate data")

\* no value: null, or a call not made yet
None == [none |-> TRUE]

\* a thrown error carries its message
Throw(message) == [ok |-> FALSE, val |-> message]
Return(value)  == [ok |-> TRUE, val |-> value]

\* the leading bytes of a tag, cut to a shorter length GCM allows
TruncatedTag(authTag) == ToHex([leading |-> BufferFromHex(authTag)])

\* decipher.setAuthTag(tag); decipher.final(): the tag given is the tag of
\* the ciphertext under this key and iv, whole or cut to an allowed length
TagVerifies(ciphertext, key, iv, authTag) ==
    LET ct   == BufferFromHex(ciphertext)
        full == [tag |-> ct.aes, key |-> ct.key, iv |-> ct.iv]
    IN  /\ "aes" \in DOMAIN ct
        /\ ct.key = key
        /\ ct.iv = BufferFromHex(iv)
        /\ BufferFromHex(authTag) \in {full, [leading |-> full]}

\* decryptWithAES: decipher.final() throws unless the tag verifies
decryptWithAES(ciphertext, key, iv, authTag) ==
    IF TagVerifies(ciphertext, key, iv, authTag)
    THEN Return(BufferFromHex(ciphertext).aes)
    ELSE Throw(AuthFailed)

(***************************************************************************)
(* Wrapping the DEK for one party.                                         *)
(***************************************************************************)
\* variant: the bytes wrapped are not the DEK handed in
encryptDEKForPartyOtherDek(dek, partyPublicKey, r) ==
    LET ephemeral     == EphemeralScalar(r)
        partyKey      == keyFromPublic(partyPublicKey)
        sharedSecret  == derive(ephemeral, partyKey)
        encryptionKey == sha256(sharedSecret)
        enc           == encryptWithAES(ToHex([other |-> dek]), encryptionKey, r)
        ephemeralPub  == ToHex(PointOf(ephemeral))
    IN  JSONStringify(<<
            [k |-> Str("ephemeralPublicKey"), v |-> StrVal(ephemeralPub)],
            [k |-> Str("encryptedDek"),       v |-> StrVal(enc.ciphertext)],
            [k |-> Str("iv"),                 v |-> StrVal(enc.iv)],
            [k |-> Str("authTag"),            v |-> StrVal(enc.authTag)] >>)

\* encryptDEKForParty(dek, partyPublicKey) with no ephemeral key supplied;
\* r is the draw of the ephemeral key pair and of the iv
encryptDEKForParty(dek, partyPublicKey, r) ==
    LET ephemeral     == EphemeralScalar(r)
        partyKey      == keyFromPublic(partyPublicKey)
        sharedSecret  == derive(ephemeral, partyKey)
        encryptionKey == sha256(sharedSecret)
        enc           == encryptWithAES(ToHex(dek), encryptionKey, r)
        ephemeralPub  == ToHex(PointOf(ephemeral))
    IN  JSONStringify(<<
            [k |-> Str("ephemeralPublicKey"), v |-> StrVal(ephemeralPub)],
            [k |-> Str("encryptedDek"),       v |-> StrVal(enc.ciphertext)],
            [k |-> Str("iv"),                 v |-> StrVal(enc.iv)],
            [k |-> Str("authTag"),            v |-> StrVal(enc.authTag)] >>)

\* variant: the secret derived with the party's own point, not the ephemeral one
decryptDEKWrongSecret(encryptedDekJson, privateKey) ==
    LET parsed        == JSONParse(encryptedDekJson)
        decryptionKey == sha256(derive(keyFromPrivate(privateKey), PointOf(keyFromPrivate(privateKey))))
        dekHex        == decryptWithAES(ObjGet(parsed, Str("encryptedDek")).s, decryptionKey,
                                        ObjGet(parsed, Str("iv")).s,
                                        ObjGet(parsed, Str("authTag")).s)
    IN  IF dekHex.ok THEN Return(BufferFromHex(dekHex.val)) ELSE dekHex

\* decryptDEKWithPrivateKey: the result is the DEK, or the error thrown
decryptDEKWithPrivateKey(encryptedDekJson, privateKey) ==
    LET parsed        == JSONParse(encryptedDekJson)
        partyKey      == keyFromPrivate(privateKey)
        ephemeralKey  == keyFromPublic(ObjGet(parsed, Str("ephemeralPublicKey")).s)
        sharedSecret  == derive(partyKey, ephemeralKey)
        decryptionKey == sha256(sharedSecret)
        dekHex        == decryptWithAES(ObjGet(parsed, Str("encryptedDek")).s, decryptionKey,
                                        ObjGet(parsed, Str("iv")).s,
                                        ObjGet(parsed, Str("authTag")).s)
    IN  IF dekHex.ok THEN Return(BufferFromHex(dekHex.val)) ELSE dekHex

(***************************************************************************)
(* Envelopes.                                                              *)
(***************************************************************************)
\* the loop over partyPublicKeys: encryptedKeys[keyHash] = wrapped DEK
RECURSIVE WrapForParties(_, _, _, _, _)
WrapForParties(dek, partyPublicKeys, wrapRnd, i, encryptedKeys) ==
    IF i > Len(partyPublicKeys) THEN encryptedKeys
    ELSE LET pubKey  == partyPublicKeys[i]
             keyHash == hashPublicKey(pubKey)
         IN  WrapForParties(dek, partyPublicKeys, wrapRnd, i + 1,
                 ObjSet(encryptedKeys, keyHash,
                        StrVal(encryptDEKForParty(dek, pubKey, wrapRnd[i]))))

\* createEncryptedEnvelope(data, partyPublicKeys); dekRnd, ivRnd and
\* wrapRnd[i] are the random draws of the DEK, the iv and the i-th wrap
createEncryptedEnvelope(data, partyPublicKeys, dekRnd, ivRnd, wrapRnd) ==
    LET dek      == generateDEK(dekRnd)
        jsonData == JSONStringify(data)
        enc      == encryptWithAES(jsonData, dek, ivRnd)
    IN  [encryptedData |-> enc.ciphertext,
         iv            |-> enc.iv,
         authTag       |-> enc.authTag,
         encryptedKeys |-> WrapForParties(dek, partyPublicKeys, wrapRnd, 1, EmptyObject)]

NotAuthorized == Str("Not authorized to decrypt this data")

\* variant: no try/catch around the payload stage, a failure there still
\* answers with success and a data field
decryptEnvelopeFailOpen(envelope, privateKey, publicKey) ==
    LET keyHash      == hashPublicKey(publicKey)
        encryptedDek == ObjGet(envelope.encryptedKeys, keyHash)
    IN  IF encryptedDek = Undefined
        THEN [success |-> FALSE, error |-> NotAuthorized]
        ELSE LET dek == decryptDEKWithPrivateKey(encryptedDek.s, privateKey)
             IN  IF ~dek.ok
                 THEN [success |-> FALSE, error |-> dek.val]
                 ELSE LET jsonData == decryptWithAES(envelope.encryptedData, dek.val,
                                                     envelope.iv, envelope.authTag)
                      IN  IF ~jsonData.ok
                          THEN [success |-> TRUE, data |-> EmptyObject]
                          ELSE [success |-> TRUE, data |-> JSONParse(jsonData.val)]

\* decryptEnvelope: a DecryptionResult
decryptEnvelope(envelope, privateKey, publicKey) ==
    LET keyHash      == hashPublicKey(publicKey)
        encryptedDek == ObjGet(envelope.encryptedKeys, keyHash)
    IN  IF encryptedDek = Undefined
        THEN [success |-> FALSE, error |-> NotAuthorized]
        ELSE LET dek == decryptDEKWithPrivateKey(encryptedDek.s, privateKey)
             IN  IF ~dek.ok
                 THEN [success |-> FALSE, error |-> dek.val]
                 ELSE LET jsonData == decryptWithAES(envelope.encryptedData, dek.val,
                                                     envelope.iv, envelope.authTag)
                      IN  IF ~jsonData.ok
                          THEN [success |-> FALSE, error |-> jsonData.val]
                          ELSE [success |-> TRUE, data |-> JSONParse(jsonData.val)]

(***************************************************************************)
(* Commitments.                                                            *)
(***************************************************************************)
\* a value that passes "x || ...": neither undefined nor the empty string
Truthy(x) == x # Undefined /\ x # StrVal(EmptyString)

\* crypto.randomBytes(32).toString('hex') drawn as r
RandomNonce(r) == ToHex([randomBytes |-> r])

\* the text a value contributes to "string + value"
Concatenated(v) == IF v.t = "number" THEN Str(v.lit) ELSE v.s

\* generateCommitment(data, nonce?); r is the draw used when no nonce is taken
generateCommitment(data, nonce, r) ==
    LET txNonce    == IF Truthy(nonce) THEN Concatenated(nonce) ELSE RandomNonce(r)
        dataString == JSONStringify(data) \o txNonce
        commitment == Str("0x") \o keccak256(dataString)
    IN  [commitment |-> commitment, nonce |-> txNonce]

\* verifyCommitment(data, nonce, expectedCommitment)
verifyCommitment(data, nonce, expectedCommitment, r) ==
    LET commitment == generateCommitment(data, nonce, r).commitment
    IN  ToLowerCase(commitment) = ToLowerCase(expectedCommitment)

NotAFunction == Str("expectedCommitment.toLowerCase is not a function")

\* verifyCommitment called with any value as expectedCommitment: what it
\* returns, or the TypeError of calling toLowerCase on a value without it
verifyCommitmentOutcome(data, nonce, expectedCommitment, r) ==
    IF expectedCommitment.t = "string"
    THEN Return(verifyCommitment(data, nonce, expectedCommitment.s, r))
    ELSE Throw(NotAFunction)

(***************************************************************************)
(* Field-level disclosure.                                                 *)
(***************************************************************************)
\* the characters of leaf data, in the order their digests happen to sort
Alphabet == <<"seller", "\"", "500001", "amount", ":", "Acme", "buyer", "500000",
             "]", "[Disclosed: ", "_nonce", "n1">>

CharCode(tok) == CHOOSE i \in DOMAIN Alphabet : Alphabet[i] = tok.c

RECURSIVE CodesLess(_, _)
CodesLess(a, b) ==
    IF b = << >> THEN FALSE
    ELSE IF a = << >> THEN TRUE
    ELSE IF CharCode(a[1]) # CharCode(b[1]) THEN CharCode(a[1]) < CharCode(b[1])
    ELSE CodesLess(Tail(a), Tail(b))

\* the order of two digests as strings: a fixed total order on the digests,
\* unrelated to the order the fields were inserted in
HexLess(a, b) == CodesLess(BufferFromHex(a).keccak, BufferFromHex(b).keccak)

\* Array.prototype.sort() on an array of digests
SortHashes(hashes) == SortSeq(hashes, HexLess)

\* hashes.join('')
RECURSIVE Join(_)
Join(strings) ==
    IF strings = << >> THEN EmptyString ELSE strings[1] \o Join(Tail(strings))

\* Object.values(obj)
ObjValues(obj) == [i \in DOMAIN obj |-> obj[i].v]

\* array.includes(x)
Includes(array, x) == \E i \in DOMAIN array : array[i] = x

\* JSON.stringify(array of strings)
RECURSIVE JSONElements(_)
JSONElements(array) ==
    IF array = << >> THEN << >>
    ELSE LET e == <<Quote>> \o array[1] \o <<Quote>>
         IN  IF Len(array) = 1 THEN e ELSE e \o Str(",") \o JSONElements(Tail(array))

JSONStringifyArray(array) == Str("[") \o JSONElements(array) \o Str("]")

\* the text is that of a JSON array
IsJSONArray(toks) ==
    /\ Len(toks) >= 2
    /\ toks[1] = [c |-> "["]
    /\ toks[Len(toks)] = [c |-> "]"]

RECURSIVE JSONParseElements(_, _, _)
JSONParseElements(toks, i, acc) ==
    IF toks[i] = [c |-> "]"] THEN acc
    ELSE IF toks[i] = [c |-> ","] THEN JSONParseElements(toks, i + 1, acc)
    ELSE LET eEnd == NextQuote(toks, i + 1)
         IN  JSONParseElements(toks, eEnd + 1, Append(acc, SubSeq(toks, i + 1, eEnd - 1)))

\* JSON.parse of the text of an array of strings
JSONParseArray(toks) == JSONParseElements(toks, 2, << >>)

\* the digest of one field: keccak256(`${key}:${JSON.stringify(value)}`)
LeafHash(key, value) == keccak256(key \o Str(":") \o JSONStringifyValue(value))

\* the loop over Object.entries(fields): leaves[key] = leafHash
RECURSIVE BuildLeaves(_, _, _)
BuildLeaves(fields, i, leaves) ==
    IF i > Len(fields) THEN leaves
    ELSE BuildLeaves(fields, i + 1,
                     ObjSet(leaves, fields[i].k, LeafHash(fields[i].k, fields[i].v)))

\* buildMerkleTree(fields)
buildMerkleTree(fields) ==
    LET leaves == BuildLeaves(fields, 1, EmptyObject)
        hashes == ObjValues(leaves)
    IN  IF Len(hashes) = 0
        THEN [root |-> keccak256(EmptyString), leaves |-> leaves]
        ELSE [root   |-> Str("0x") \o keccak256(Join(SortHashes(hashes))),
              leaves |-> leaves]

\* first loop of generateMerkleProof, over disclosedFieldNames
RECURSIVE DiscloseLoop(_, _, _, _, _)
DiscloseLoop(allFields, leaves, disclosedFieldNames, i, acc) ==
    IF i > Len(disclosedFieldNames) THEN acc
    ELSE LET fieldName == disclosedFieldNames[i]
         IN  IF ObjGet(allFields, fieldName) # Undefined
             THEN DiscloseLoop(allFields, leaves, disclosedFieldNames, i + 1,
                    [disclosedFields |-> ObjSet(acc.disclosedFields, fieldName,
                                                ObjGet(allFields, fieldName)),
                     proofHashes     |-> Append(acc.proofHashes, ObjGet(leaves, fieldName))])
             ELSE DiscloseLoop(allFields, leaves, disclosedFieldNames, i + 1, acc)

\* second loop of generateMerkleProof, over Object.entries(leaves)
RECURSIVE NonDisclosedLoop(_, _, _, _)
NonDisclosedLoop(leaves, disclosedFieldNames, i, proofHashes) ==
    IF i > Len(leaves) THEN proofHashes
    ELSE IF ~Includes(disclosedFieldNames, leaves[i].k)
         THEN NonDisclosedLoop(leaves, disclosedFieldNames, i + 1,
                               Append(proofHashes, leaves[i].v))
         ELSE NonDisclosedLoop(leaves, disclosedFieldNames, i + 1, proofHashes)

\* generateMerkleProof(allFields, disclosedFieldNames)
generateMerkleProof(allFields, disclosedFieldNames) ==
    LET leaves    == buildMerkleTree(allFields).leaves
        disclosed == DiscloseLoop(allFields, leaves, disclosedFieldNames, 1,
                                  [disclosedFields |-> EmptyObject, proofHashes |-> << >>])
        proofHashes == NonDisclosedLoop(leaves, disclosedFieldNames, 1, disclosed.proofHashes)
    IN  [disclosedFields |-> disclosed.disclosedFields,
         proof           |-> JSONStringifyArray(SortHashes(proofHashes))]

\* proofHashes.filter(h => !Object.values(leaves).includes(h))
FilterNotIn(proofHashes, leafValues) ==
    SelectSeq(proofHashes, LAMBDA h : ~Includes(leafValues, h))

\* variant: the root of the disclosed data alone compared with the original
isValidComparesRoot(root, allHashes, originalMerkleRoot) == root = originalMerkleRoot

\* "const isValid = true": the outcome of the check in POST /disclosures/verify
isValid(root, allHashes, originalMerkleRoot) == TRUE

\* the handler of POST /api/v1/disclosures/verify on a schema-valid body
disclosuresVerify(body) ==
    LET tree == buildMerkleTree(body.disclosedData)
    IN  IF ~IsJSONArray(body.merkleProof)
        THEN [status |-> 500]
        ELSE LET proofHashes == JSONParseArray(body.merkleProof)
                 leafValues  == ObjValues(tree.leaves)
                 allHashes   == SortHashes(leafValues \o FilterNotIn(proofHashes, leafValues))
             IN  [status              |-> 200,
                  valid               |-> isValid(tree.root, allHashes, body.originalMerkleRoot),
                  disclosedFieldCount |-> Len(ObjKeys(body.disclosedData)),
                  expectedRoot        |-> body.originalMerkleRoot]

(***************************************************************************)
(* Signatures.                                                             *)
(***************************************************************************)
\* key.sign(hash).toDER('hex'): the signature of hash under the scalar
\* (elliptic draws the ECDSA nonce from the key and the hash)
signData(data, privateKey) ==
    LET key  == keyFromPrivate(privateKey)
        hash == keccak256(data)
    IN  ToHex([signed |-> hash, by |-> key])

\* key.verify(hash, signature): the signature is one of hash under the
\* scalar of this point
ecVerify(point, hash, signature) ==
    LET sig == BufferFromHex(signature)
    IN  /\ sig.signed = hash
        /\ PointOf(sig.by) = point

\* the DER bytes parse as a signature
IsDER(signature) ==
    /\ Len(signature) = 1
    /\ "hexof" \in DOMAIN signature[1]
    /\ "signed" \in DOMAIN BufferFromHex(signature)

\* variant: the signed hash compared, the signing key not
verifySignatureAnyKey(data, signature, publicKey) ==
    IF ~IsDER(signature) THEN FALSE
    ELSE BufferFromHex(signature).signed = keccak256(data)

\* verifySignature(data, signature, publicKey): false when anything throws
verifySignature(data, signature, publicKey) ==
    IF ~IsDER(signature) THEN FALSE
    ELSE LET key  == keyFromPublic(publicKey)
             hash == keccak256(data)
         IN  ecVerify(key, hash, signature)

(***************************************************************************)
(* PrivacyCommitmentRegistry (the on-chain contract).  A bytes32 word is a *)
(* small natural number, 0 being bytes32(0).                               *)
(***************************************************************************)
\* the value of an unset mapping slot
NoCommitment ==
    [commitmentHash |-> 0, domainId |-> 0, partyHints |-> << >>,
     timestamp |-> 0, txType |-> 0, exists |-> FALSE]

\* a failed require: the transaction reverts with the message
Revert(message, reg) == [reverted |-> TRUE, message |-> message, registry |-> reg]

\* the loop over partyHints: partyCommitments[partyHints[i]].push(commitmentId)
RECURSIVE PushHints(_, _, _, _)
PushHints(partyCommitments, partyHints, i, commitmentId) ==
    IF i > Len(partyHints) THEN partyCommitments
    ELSE PushHints([partyCommitments EXCEPT ![partyHints[i]] = Append(@, commitmentId)],
                   partyHints, i + 1, commitmentId)

\* variant: no require that the commitment does not exist yet
recordCommitmentOverwrite(reg, commitmentId, commitmentHash, domainId, partyHints, txType, timestamp) ==
    IF commitmentHash = 0 THEN Revert("Invalid commitment hash", reg)
    ELSE IF domainId = 0 THEN Revert("Invalid domain ID", reg)
    ELSE [reverted |-> FALSE,
          registry |->
            [commitments       |-> [reg.commitments EXCEPT ![commitmentId] =
                                       [commitmentHash |-> commitmentHash,
                                        domainId       |-> domainId,
                                        partyHints     |-> partyHints,
                                        timestamp      |-> timestamp,
                                        txType         |-> txType,
                                        exists         |-> TRUE]],
             domainCommitments |-> [reg.domainCommitments EXCEPT ![domainId] =
                                       Append(@, commitmentId)],
             partyCommitments  |-> PushHints(reg.partyCommitments, partyHints, 1, commitmentId),
             totalCommitments  |-> reg.totalCommitments + 1]]

\* recordCommitment on the registry state reg at block time timestamp: the
\* state after the call, unchanged when the call reverts
recordCommitment(reg, commitmentId, commitmentHash, domainId, partyHints, txType, timestamp) ==
    IF reg.commitments[commitmentId].exists
    THEN Revert("Commitment already exists", reg)
    ELSE IF commitmentHash = 0 THEN Revert("Invalid commitment hash", reg)
    ELSE IF domainId = 0 THEN Revert("Invalid domain ID", reg)
    ELSE [reverted |-> FALSE,
          registry |->
            [commitments       |-> [reg.commitments EXCEPT ![commitmentId] =
                                       [commitmentHash |-> commitmentHash,
                                        domainId       |-> domainId,
                                        partyHints     |-> partyHints,
                                        timestamp      |-> timestamp,
                                        txType         |-> txType,
                                        exists         |-> TRUE]],
             domainCommitments |-> [reg.domainCommitments EXCEPT ![domainId] =
                                       Append(@, commitmentId)],
             partyCommitments  |-> PushHints(reg.partyCommitments, partyHints, 1, commitmentId),
             totalCommitments  |-> reg.totalCommitments + 1]]

\* verifyCommitment(commitmentId, expectedHash) of the contract (a view)
registryVerifyCommitment(reg, commitmentId, expectedHash) ==
    LET c == reg.commitments[commitmentId]
    IN  IF ~c.exists THEN FALSE
        ELSE c.commitmentHash = expectedHash

(***************************************************************************)
(* The backend service: parties and private transactions.  A party id is   *)
(* the party's number in order of registration; its e-mail address is      *)
(* identified with that number.                                            *)
(***************************************************************************)
\* scalars drawn by the two generateKeyPair() calls of a registration: no
\* two parties, and no two keys of one party, draw the same scalar
IdentityScalar(p)   == p
EncryptionScalar(p) == NumParties + p

\* `TXN-${uuidv4().substring(0, 8).toUpperCase()}` with the uuid drawn as r
TransactionIdOf(r) == <<[c |-> "TXN-"], [hexof |-> [uuid |-> r], up |-> TRUE]>>

\* '0x' + uuidv4().replace(/-/g, '').substring(0, 64).padEnd(64, '0')
DomainIdHashOf(r) == <<[c |-> "0x"], [hexof |-> [uuid |-> r, padEnd |-> 64], up |-> FALSE]>>

\* ids of a list of {partyId, role}
PartyIdsOf(parties) == {parties[i].partyId : i \in DOMAIN parties}

\* the parties list built by POST /transactions from the request body
BuildParties(currentPartyId, inputParties, counterparty) ==
    LET start == IF Len(inputParties) > 0 THEN inputParties
                 ELSE <<[partyId |-> currentPartyId, role |-> "SIGNATORY"]>>
        withCounterparty ==
            IF counterparty # {} /\ counterparty \cap PartyIdsOf(start) = {}
            THEN Append(start, [partyId |-> CHOOSE c \in counterparty : TRUE,
                                role |-> "SIGNATORY"])
            ELSE start
    IN  IF currentPartyId \in PartyIdsOf(withCounterparty) THEN withCounterparty
        ELSE Append(withCounterparty, [partyId |-> currentPartyId, role |-> "SIGNATORY"])

\* a finite set of party ids as the list findMany returns, in id order
RECURSIVE InIdOrder(_)
InIdOrder(ids) ==
    IF ids = {} THEN << >>
    ELSE LET least == CHOOSE p \in ids : \A q \in ids : p <= q
         IN  <<least>> \o InIdOrder(ids \ {least})

\* the rows of one transaction as POST /transactions creates them; r is the
\* draw of every random value of the handler
NewTransaction(table, currentPartyId, body, r) ==
    LET parties       == BuildParties(currentPartyId, body.parties, body.counterpartyEmail)
        partyRecords  == InIdOrder({q \in PartyIdsOf(parties) : table[q] # None})
        transactionId == TransactionIdOf(r)
        cm            == generateCommitment(body.payload, Undefined, r)
        merkleRoot    == buildMerkleTree(body.payload).root
        publicKeys    == [i \in DOMAIN partyRecords |-> table[partyRecords[i]].encryptionKey]
        envelope      == createEncryptedEnvelope(
                             ObjSet(ObjSet(body.payload, Str("_nonce"), StrVal(cm.nonce)),
                                    Str("_transactionId"), StrVal(transactionId)),
                             publicKeys, r, r, [i \in DOMAIN publicKeys |-> r])
    IN  [transactionId    |-> transactionId,
         domain           |-> [domainId |-> DomainIdHashOf(r), adminId |-> currentPartyId,
                               members |-> {currentPartyId}],
         commitmentHash   |-> cm.commitment,
         txType           |-> body.type,
         status           |-> "PENDING",
         merkleRoot       |-> merkleRoot,
         commitmentTxHash |-> None,
         parties          |->
            [i \in DOMAIN parties |->
                [partyId          |-> parties[i].partyId,
                 role             |-> parties[i].role,
                 encryptedPayload |-> JSONStringify(<<
                     [k |-> Str("encryptedData"), v |-> StrVal(envelope.encryptedData)],
                     [k |-> Str("iv"),            v |-> StrVal(envelope.iv)],
                     [k |-> Str("authTag"),       v |-> StrVal(envelope.authTag)] >>),
                 encryptedDek     |-> ObjGet(envelope.encryptedKeys,
                                            hashPublicKey(table[parties[i].partyId].encryptionKey)).s,
                 signature        |-> None]]]

\* encryptedDek.substring(0, 66) of a wrapped DEK: the 23 characters
\* {"ephemeralPublicKey":" and the first 43 hex digits of the key
Substring66(encryptedDek) ==
    SubSeq(encryptedDek, 1, 6) \o <<[leadingDigitsOf |-> encryptedDek[7]]>>

\* txTypeMap of POST /transactions/:id/commit
txTypeMap ==
    [type \in {"TRADE_FINANCE", "RWA_TRANSFER", "DVP_SETTLEMENT", "PAYMENT", "CUSTOM"} |->
        CASE type = "TRADE_FINANCE"  -> 0
          [] type = "RWA_TRANSFER"   -> 1
          [] type = "DVP_SETTLEMENT" -> 2
          [] type = "PAYMENT"        -> 3
          [] type = "CUSTOM"         -> 4]

\* txTypeMap[transaction.txType] || 4: zero is falsy
TxTypeArgument(txType) == IF txTypeMap[txType] = 0 THEN 4 ELSE txTypeMap[txType]

\* the CommitmentData POST /transactions/:id/commit passes to
\* blockchain.recordCommitment
CommitmentDataOf(transaction) ==
    [commitmentId   |-> transaction.transactionId,
     commitmentHash |-> transaction.commitmentHash,
     domainId       |-> transaction.domain.domainId,
     partyHints     |-> [i \in DOMAIN transaction.parties |->
                            Str("0x") \o hashPublicKey(Substring66(transaction.parties[i].encryptedDek))],
     txType         |-> TxTypeArgument(transaction.txType)]

\* txHash of the simulated commitment:
\* '0x' + Buffer.from(commitmentId).toString('hex').padStart(64, '0')
SimulatedTxHash(commitmentId) ==
    <<[c |-> "0x"], [hexof |-> [utf8 |-> commitmentId, padStart |-> 64], up |-> FALSE]>>

\* transaction.parties.filter(p => p.role === 'SIGNATORY')
AllSignatories(transaction) ==
    {i \in DOMAIN transaction.parties : transaction.parties[i].role = "SIGNATORY"}

\* allSignatories.filter(p => p.signature || p.partyId === currentPartyId).length
SignedCount(transaction, currentPartyId) ==
    Cardinality({i \in AllSignatories(transaction) :
                    \/ transaction.parties[i].signature # None
                    \/ transaction.parties[i].partyId = currentPartyId})

\* variant: FULLY_SIGNED as soon as one signatory has signed
NewStatusAnySigned(transaction, currentPartyId) ==
    IF SignedCount(transaction, currentPartyId) > 0 THEN "FULLY_SIGNED"
    ELSE transaction.status

\* the status POST /transactions/:id/sign writes, from the rows it has read
NewStatus(transaction, currentPartyId) ==
    IF SignedCount(transaction, currentPartyId) = Cardinality(AllSignatories(transaction))
    THEN "FULLY_SIGNED"
    ELSE IF SignedCount(transaction, currentPartyId) > 0 THEN "PARTIALLY_SIGNED"
    ELSE transaction.status

\* where: parties: { some: { partyId, role: 'SIGNATORY' } }
IsSignatoryOf(transaction, partyId) ==
    \E i \in DOMAIN transaction.parties :
        /\ transaction.parties[i].partyId = partyId
        /\ transaction.parties[i].role = "SIGNATORY"

\* variant: the where clause without the parties filter
IsPartyOfUnfiltered(transaction, partyId) == TRUE

\* where: parties: { some: { partyId } }
IsPartyOf(transaction, partyId) ==
    \E i \in DOMAIN transaction.parties : transaction.parties[i].partyId = partyId

\* transaction.parties.find(p => p.partyId === partyId): the first such
\* row, or nothing
PartyRecordOf(transaction, partyId) ==
    IF \A i \in DOMAIN transaction.parties : transaction.parties[i].partyId # partyId
    THEN None
    ELSE transaction.parties[CHOOSE i \in DOMAIN transaction.parties :
                                /\ transaction.parties[i].partyId = partyId
                                /\ \A j \in 1..(i-1) : transaction.parties[j].partyId # partyId]

\* the parties of a transaction as the responses list them
PartySummaries(transaction) ==
    [i \in DOMAIN transaction.parties |->
        [partyId |-> transaction.parties[i].partyId,
         role    |-> transaction.parties[i].role,
         signed  |-> transaction.parties[i].signature # None]]

\* const { _nonce, _transactionId, ...payload } = result.data
RECURSIVE WithoutInternal(_)
WithoutInternal(data) ==
    IF data = << >> THEN << >>
    ELSE IF data[1].k \in {Str("_nonce"), Str("_transactionId")}
         THEN WithoutInternal(Tail(data))
         ELSE <<data[1]>> \o WithoutInternal(Tail(data))

\* the loop of POST /disclosures over disclosedFields:
\* samplePayload[field] = `[Disclosed: ${field}]`
RECURSIVE SamplePayload(_, _, _)
SamplePayload(disclosedFields, i, samplePayload) ==
    IF i > Len(disclosedFields) THEN samplePayload
    ELSE SamplePayload(disclosedFields, i + 1,
                       ObjSet(samplePayload, disclosedFields[i],
                              StrVal(Str("[Disclosed: ") \o disclosedFields[i] \o Str("]"))))

\* a string inside a JSON text: every '"' written as \"
EscapedQuote == [c |-> "\\\""]
Escaped(string)   == [i \in DOMAIN string |-> IF string[i] = Quote THEN EscapedQuote ELSE string[i]]
Unescaped(string) == [i \in DOMAIN string |-> IF string[i] = EscapedQuote THEN Quote ELSE string[i]]

\* JSON.stringify(envelope) of POST /disclosures: the three strings, then
\* the encryptedKeys object, whose values are JSON texts themselves
StringifyEnvelope(envelope) ==
    Str("{")
        \o JSONMembers(<<[k |-> Str("encryptedData"), v |-> StrVal(envelope.encryptedData)],
                         [k |-> Str("iv"),            v |-> StrVal(envelope.iv)],
                         [k |-> Str("authTag"),       v |-> StrVal(envelope.authTag)]>>)
        \o Str(",") \o <<Quote>> \o Str("encryptedKeys") \o <<Quote>> \o Str(":")
        \o JSONStringify([i \in DOMAIN envelope.encryptedKeys |->
                             [k |-> envelope.encryptedKeys[i].k,
                              v |-> StrVal(Escaped(envelope.encryptedKeys[i].v.s))]])
        \o Str("}")

\* JSON.parse(disclosure.encryptedDisclosure): the members before the
\* first nested object, and the nested object with its strings unescaped
ParseEnvelope(text) ==
    LET Open   == [c |-> "{"]
        keysAt == CHOOSE i \in 2..Len(text) :
                     text[i] = Open /\ \A m \in 2..(i - 1) : text[m] # Open
        top    == JSONParse(SubSeq(text, 1, keysAt - 6) \o Str("}"))
        keys   == JSONParse(SubSeq(text, keysAt, Len(text) - 1))
    IN  [encryptedData |-> ObjGet(top, Str("encryptedData")).s,
         iv            |-> ObjGet(top, Str("iv")).s,
         authTag       |-> ObjGet(top, Str("authTag")).s,
         encryptedKeys |-> [i \in DOMAIN keys |->
                              [k |-> keys[i].k, v |-> StrVal(Unescaped(keys[i].v.s))]]]

\* expiresAt of a new disclosure, in days after its creation: nothing when
\* expiresInDays is left out
ExpiresAt(expiresInDays) ==
    IF expiresInDays = {} THEN None
    ELSE [days |-> CHOOSE days \in expiresInDays : TRUE]

\* disclosure.expiresAt && new Date() > disclosure.expiresAt, the request
\* arriving elapsed days after the creation
Expired(disclosure, elapsed) ==
    disclosure.expiresAt # None /\ elapsed > disclosure.expiresAt.days

\* where: OR: [{ grantorId: currentPartyId }, { receiverId: currentPartyId }]
IsReceiverOrGrantor(disclosure, currentPartyId) ==
    currentPartyId \in {disclosure.receiverId, disclosure.grantorId}

\* variant: the envelope goes to every caller that gets the disclosure
IsReceiverUnchecked(disclosure, currentPartyId) == TRUE

\* currentPartyId === disclosure.receiverId
IsReceiver(disclosure, currentPartyId) == currentPartyId = disclosure.receiverId

\* the row POST /disclosures creates; r is the draw of every random value
\* of createEncryptedEnvelope
NewDisclosure(table, currentPartyId, receiverId, disclosedFields, expiresInDays, r) ==
    LET samplePayload == SamplePayload(disclosedFields, 1, EmptyObject)
        generated     == generateMerkleProof(samplePayload, disclosedFields)
        envelope      == createEncryptedEnvelope(generated.disclosedFields,
                                                 <<table[receiverId].encryptionKey>>,
                                                 r, r, <<r>>)
    IN  [grantorId           |-> currentPartyId,
         receiverId          |-> receiverId,
         disclosedFields     |-> disclosedFields,
         encryptedDisclosure |-> StringifyEnvelope(envelope),
         merkleProof         |-> generated.proof,
         expiresAt           |-> ExpiresAt(expiresInDays)]

(***************************************************************************)
(* Inputs.                                                                 *)
(***************************************************************************)
FieldNames == {"amount", "buyer", "seller"}

Values == {Num("500000"), StrVal(Str("Acme"))}

\* values a field may be changed to
OtherValues == {Num("500001"), StrVal(Str("500000"))}

\* objects of at most MaxFields fields, no name twice, in every insertion order
Payloads ==
    UNION {{obj \in [1..n -> [k : {Str(f) : f \in FieldNames}, v : Values]] :
                \A i, j \in 1..n : i # j => obj[i].k # obj[j].k} : n \in 0..MaxFields}

KeyPairs == {generateKeyPair(s) : s \in PartyScalars}

\* the public keys as callers may write them: party 1's also in upper case
PublicKeyStrings ==
    {kp.publicKey : kp \in KeyPairs} \cup {UpperHex(generateKeyPair(1).publicKey)}

\* nonces a caller may pass: strings, the empty one included
Nonces == {StrVal(EmptyString), StrVal(Str("n1")), StrVal(Str("n2"))}

\* the nonce argument: a string, or left out
NonceArgs == Nonces \cup {Undefined}

\* obj with the value of one field changed
Tampered(obj) ==
    UNION {{[obj EXCEPT ![i].v = w] : w \in (Values \cup OtherValues) \ {obj[i].v}} :
               i \in DOMAIN obj}

\* lists of field names a caller may ask to disclose
NameLists == UNION {[1..n -> {Str(f) : f \in FieldNames}] : n \in 0..MaxFields}

\* the disclosedFields of a request body: a field of the payload, two
\* fields of it, a name that is no field of it
DisclosedFieldLists ==
    {<<Str("amount")>>, <<Str("amount"), Str("buyer")>>, <<Str("seller")>>}

\* expiresInDays of a request body: left out, or one day
ExpiresInDaysInputs == {{}, {1}}

\* days between the creation of a disclosure and a request for it
ElapsedDays == {0, 2}

\* messages to sign: commitment hashes
Messages == {generateCommitment(data, StrVal(Str("n1")), 1).commitment : data \in Payloads}

\* recipient lists a caller may pass, the empty list included
RecipientLists == UNION {[1..n -> PublicKeyStrings] : n \in 0..MaxRecipients}

\* a hex string of the same length with some digit changed
Flip(s) == ToHex([changed |-> BufferFromHex(s)])

\* the wrapped DEK stored under keyHash with one of its fields replaced
ModifiedEntry(encryptedKeys, keyHash, field, value) ==
    ObjSet(encryptedKeys, keyHash,
           StrVal(JSONStringify(ObjSet(JSONParse(ObjGet(encryptedKeys, keyHash).s),
                                       Str(field), StrVal(value)))))

\* envelopes that differ from the given one in one field, or in one field of
\* the wrapped DEK stored under keyHash; change names what was modified
ModifiedEnvelopes(envelope, keyHash) ==
    {[change |-> "encryptedData",
      envelope |-> [envelope EXCEPT !.encryptedData = Flip(envelope.encryptedData)]],
     [change |-> "iv",
      envelope |-> [envelope EXCEPT !.iv = Flip(envelope.iv)]],
     [change |-> "authTag",
      envelope |-> [envelope EXCEPT !.authTag = Flip(envelope.authTag)]],
     [change |-> "authTag shortened",
      envelope |-> [envelope EXCEPT !.authTag = TruncatedTag(envelope.authTag)]]}
    \cup
    (IF ObjGet(envelope.encryptedKeys, keyHash) = Undefined THEN {}
     ELSE LET entry == JSONParse(ObjGet(envelope.encryptedKeys, keyHash).s)
          IN  {[change |-> "wrapped key " \o f,
                envelope |-> [envelope EXCEPT !.encryptedKeys =
                    ModifiedEntry(envelope.encryptedKeys, keyHash, f,
                                  Flip(ObjGet(entry, Str(f)).s))]] :
                   f \in {"encryptedDek", "iv", "authTag"}}
              \cup
              {[change |-> "wrapped key ephemeralPublicKey",
                envelope |-> [envelope EXCEPT !.encryptedKeys =
                    ModifiedEntry(envelope.encryptedKeys, keyHash, "ephemeralPublicKey",
                                  ToHex(PointOf(EphemeralScalar(0))))]]})

\* arguments of calls to the contract
CommitmentIds == {1, 2}

Bytes32Hashes == {0, 1, 2}

DomainIds == {0, 1}

HintLists == {<< >>, <<1>>, <<1, 2>>}

TxTypeNumbers == 0..4

BlockTimes == {1}

PartyIds == 1..NumParties

TxTypes == {"TRADE_FINANCE", "RWA_TRANSFER", "DVP_SETTLEMENT", "PAYMENT", "CUSTOM"}

Roles == {"SIGNATORY", "OBSERVER"}

\* payloads of the transactions created
PlainPayload ==
    <<[k |-> Str("amount"), v |-> Num("500000")], [k |-> Str("buyer"), v |-> StrVal(Str("Acme"))]>>

\* a payload with a field of its own named _nonce
TxPayloads ==
    {PlainPayload,
     <<[k |-> Str("amount"), v |-> Num("500000")], [k |-> Str("_nonce"), v |-> StrVal(Str("n1"))]>>}

\* the parties field of a request body: left out, or one party with a role
PartyInputs == {<< >>} \cup {<<[partyId |-> q, role |-> role]>> : q \in PartyIds, role \in Roles}

\* bodies of POST /transactions; counterpartyEmail is the set of the party
\* the address belongs to, empty when the field is left out.  Every type
\* comes with the default party list, every party list with the first type
\* and the plain payload, every payload with the default party list.
CreateBodies ==
    {body \in [type : TxTypes, payload : TxPayloads, parties : PartyInputs,
               counterpartyEmail : {{}} \cup {{q} : q \in PartyIds}] :
        \/ (body.type = "TRADE_FINANCE" /\ body.payload = PlainPayload)
        \/ (body.parties = << >> /\ body.counterpartyEmail = {}
              /\ (body.payload = PlainPayload \/ body.type = "TRADE_FINANCE"))}

\* the bodies of POST /transactions that the disclosure routes are run
\* on: the default party list with any counterparty
DisclosureBodies ==
    {body \in CreateBodies :
        /\ body.type = "TRADE_FINANCE"
        /\ body.payload = PlainPayload
        /\ body.parties = << >>}

\* WebSocket connections, and a connection before the route handler runs
Connections == 1..NumConnections

NotConnected == [state |-> "none", clientId |-> None, partyId |-> None]

\* channels a client may name
Channels == {"transactions"}

\* the token of an auth message: one that jwt.verify accepts for a party,
\* or one it rejects
Tokens == {[partyId |-> q] : q \in {1, 2}} \cup {[invalid |-> TRUE]}

\* messages a client may send, after JSON.parse; text that is no JSON
WsMessages ==
    {[type |-> "auth", token |-> token] : token \in Tokens}
        \cup {[type |-> type, channel |-> channel] :
                 type \in {"subscribe", "unsubscribe"}, channel \in Channels}
        \cup {[type |-> "subscribe"], [type |-> "ping"], [type |-> "hello"], [notJSON |-> TRUE]}

\* addresses that call DomainRegistry (msg.sender is never address(0)),
\* addresses a caller may name, participant hints and domain names
Senders       == {1, 2}
Addresses     == {0} \cup Senders
Hints         == {1, 2}
DomainNames   == {"", "trade"}

\* the domain ids callers of DomainRegistry name
RegistryDomainIds == {1}

\* storage of DomainRegistry after deployment: every slot zero
DeployedDomainRegistry ==
    [domains            |-> [d \in RegistryDomainIds |->
                               [admin |-> 0, name |-> "", active |-> FALSE,
                                createdAt |-> 0, participantCount |-> 0]],
     isParticipant      |-> [d \in RegistryDomainIds |-> [h \in Hints |-> FALSE]],
     domainParticipants |-> [d \in RegistryDomainIds |-> << >>],
     adminDomains       |-> [a \in Addresses |-> << >>],
     totalDomains       |-> 0]

(***************************************************************************)
(* State.                                                                  *)
(***************************************************************************)
VARIABLES
    partyTable,  \* table Party: per party id [publicKey, encryptionKey], or None
    tx,          \* the PrivateTransaction row with its TransactionParty rows, or None
    auditLog,    \* table AuditLog: the set of [action, actorId] written
    reqs,        \* the bag of sign and commit handlers waiting for the database
                 \* or the ledger: [kind, caller, pc, transaction, ...]
    taken,       \* the number of sign and commit requests taken up so far
    disclosures, \* the disclosure table: rows [grantorId, receiverId,
                 \* disclosedFields, encryptedDisclosure, merkleProof]
    ledgerCalls, \* the calls of blockchain.recordCommitment made: [data, by]
    revoked,     \* the rows deleted from the disclosure table
    connections, \* per WebSocket connection: [state, clientId, partyId], the
                 \* locals of its handler
    clients,     \* the clients map, as the set of its entries
                 \* [clientId, ws, partyId, subscriptions]
    clock,       \* the last reading of Date.now()
    domainReg,   \* storage of DomainRegistry: [domains, isParticipant,
                 \* domainParticipants, adminDomains, totalDomains]
    created,     \* what POST /transactions created the transaction from:
                 \* [caller, payload], or None
    resp,        \* the last response sent: [route, caller, status, body], with
                 \* the request body where the route reads one; or None
    registry,    \* storage of PrivacyCommitmentRegistry: [commitments,
                 \* domainCommitments, partyCommitments, totalCommitments]
    firstStored, \* per commitment id, the set holding the hash stored by the
                 \* first successful recordCommitment; empty before it
    chainCall,   \* the last call to the contract and its outcome, or None
    env,    \* the last envelope built: [data, partyPublicKeys, envelope], or None
    dec,    \* the last decryptEnvelope call: [envelope, change, privateKey,
            \* publicKey, result], or None
    cm1,    \* a generateCommitment call: [data, nonce, result], or None
    cm2,    \* a second generateCommitment call, or None
    cv,     \* a verifyCommitment call: [data, nonce, expectedCommitment, valid], or None
    cvAny,  \* a verifyCommitment call with arguments of any type:
            \* [data, nonce, expectedCommitment, outcome], or None
    cvResp, \* response of POST /commitments/verify: [body, status, valid], or None
    tree1,  \* a buildMerkleTree call: [fields, result], or None
    tree2,  \* a second buildMerkleTree call, or None
    prf,    \* a generateMerkleProof call on tree1's fields:
            \* [allFields, disclosedFieldNames, result], or None
    dver,   \* a POST /disclosures/verify request: [body, response], or None
    sig,    \* a signData call: [data, privateKey, signature], or None
    sv      \* a verifySignature call: [data, signature, publicKey, valid], or None

envVars == <<env, dec>>
cmVars  == <<cm1, cm2, cv, cvAny, cvResp>>
dsVars  == <<tree1, tree2, prf, dver>>
sgVars  == <<sig, sv>>
chainVars == <<registry, firstStored, chainCall>>
wsVars  == <<connections, clients, clock>>
drVars  == <<domainReg>>
svcVars == <<partyTable, tx, auditLog, reqs, taken, ledgerCalls, disclosures, revoked, created, resp>>

vars == <<env, dec, cm1, cm2, cv, cvAny, cvResp, tree1, tree2, prf, dver, sig, sv,
         registry, firstStored, chainCall, partyTable, tx, auditLog,
         reqs, taken, ledgerCalls, disclosures, revoked, created, resp,
         connections, clients, clock, domainReg>>

Init ==
    /\ env = None
    /\ dec = None
    /\ cm1 = None
    /\ cm2 = None
    /\ cv = None
    /\ cvAny = None
    /\ cvResp = None
    /\ tree1 = None
    /\ tree2 = None
    /\ prf = None
    /\ dver = None
    /\ sig = None
    /\ sv = None
    /\ registry = [commitments       |-> [id \in CommitmentIds |-> NoCommitment],
                   domainCommitments |-> [d \in DomainIds |-> << >>],
                   partyCommitments  |-> [h \in {1, 2} |-> << >>],
                   totalCommitments  |-> 0]
    /\ firstStored = [id \in CommitmentIds |-> {}]
    /\ chainCall = None
    /\ partyTable = [q \in PartyIds |-> None]
    /\ tx = None
    /\ auditLog = {}
    /\ reqs = EmptyBag
    /\ taken = 0
    /\ ledgerCalls = << >>
    /\ disclosures = {}
    /\ created = None
    /\ revoked = {}
    /\ resp = None
    /\ connections = [c \in Connections |-> NotConnected]
    /\ clients = {}
    /\ clock = 1
    /\ domainReg = DeployedDomainRegistry

(***************************************************************************)
(* Envelope operations.                                                    *)
(***************************************************************************)
CreateEnvelope ==
    /\ env = None
    /\ \E data \in Payloads, keys \in RecipientLists, dekRnd \in Rnd, ivRnd \in Rnd :
        \E wrapRnd \in [1..Len(keys) -> Rnd] :
          env' = [data            |-> data,
                  partyPublicKeys |-> keys,
                  envelope        |-> createEncryptedEnvelope(data, keys, dekRnd, ivRnd, wrapRnd)]
    /\ UNCHANGED <<wsVars, drVars, svcVars, dec, cmVars, dsVars, sgVars, chainVars>>

DecryptEnvelope ==
    /\ env # None
    /\ dec = None
    /\ \E kp \in KeyPairs, publicKey \in PublicKeyStrings :
        dec' = [envelope   |-> env.envelope,
                change     |-> "none",
                privateKey |-> kp.privateKey,
                publicKey  |-> publicKey,
                result     |-> decryptEnvelope(env.envelope, kp.privateKey, publicKey)]
    /\ UNCHANGED <<wsVars, drVars, svcVars, env, cmVars, dsVars, sgVars, chainVars>>

\* decryptEnvelope called with a recipient's public key on the envelope
\* after it was modified in transit or in storage
DecryptModified ==
    /\ env # None
    /\ dec = None
    /\ \E kp \in KeyPairs, i \in DOMAIN env.partyPublicKeys :
        \E publicKey \in {env.partyPublicKeys[i]} :
        \E m \in ModifiedEnvelopes(env.envelope, hashPublicKey(publicKey)) :
          dec' = [envelope   |-> m.envelope,
                  change     |-> m.change,
                  privateKey |-> kp.privateKey,
                  publicKey  |-> publicKey,
                  result     |-> decryptEnvelope(m.envelope, kp.privateKey, publicKey)]
    /\ UNCHANGED <<wsVars, drVars, svcVars, env, cmVars, dsVars, sgVars, chainVars>>

NextEnvelope == CreateEnvelope \/ DecryptEnvelope

SpecEnvelope == Init /\ [][NextEnvelope]_vars

NextModified == CreateEnvelope \/ DecryptModified

SpecModified == Init /\ [][NextModified]_vars

\* the key pair (privateKey, publicKey) is one pair: the key is the scalar's point
IsKeyPair(privateKey, publicKey) ==
    keyFromPublic(publicKey) = PointOf(keyFromPrivate(privateKey))

\* the points the envelope was built for
RecipientPoints == {keyFromPublic(env.partyPublicKeys[i]) : i \in DOMAIN env.partyPublicKeys}

\* C1: a recipient of the envelope who opens it with their own key pair
\* succeeds and gets data equal to the payload the envelope was built from.
C1_RoundTrip ==
    (/\ dec # None
     /\ IsKeyPair(dec.privateKey, dec.publicKey)
     /\ keyFromPublic(dec.publicKey) \in RecipientPoints)
    => (/\ dec.result.success
        /\ dec.result.data = env.data)

\* two recipients, the first of them opens an envelope of a two-field payload
C1_Witness ==
    /\ dec # None
    /\ Len(env.partyPublicKeys) = 2
    /\ env.partyPublicKeys[1] # env.partyPublicKeys[2]
    /\ dec.publicKey = env.partyPublicKeys[1]
    /\ IsKeyPair(dec.privateKey, dec.publicKey)
    /\ Len(env.data) = 2
    /\ dec.result.success
    /\ dec.result.data = env.data

\* C2: a key pair whose public key is not among the recipients gets the
\* not-authorized failure and no data.
C2_Exclusivity ==
    (/\ dec # None
     /\ IsKeyPair(dec.privateKey, dec.publicKey)
     /\ keyFromPublic(dec.publicKey) \notin RecipientPoints)
    => (/\ ~dec.result.success
        /\ dec.result.error = NotAuthorized
        /\ "data" \notin DOMAIN dec.result)

\* an outsider's own key pair is refused on an envelope of two recipients
C2_Witness ==
    /\ dec # None
    /\ Len(env.partyPublicKeys) = 2
    /\ IsKeyPair(dec.privateKey, dec.publicKey)
    /\ keyFromPublic(dec.publicKey) \notin RecipientPoints
    /\ dec.result = [success |-> FALSE, error |-> NotAuthorized]

\* the private key that belongs to a public key
PrivateKeyFor(publicKey) ==
    (CHOOSE kp \in KeyPairs : keyFromPublic(kp.publicKey) = keyFromPublic(publicKey)).privateKey

\* the entry of encryptedKeys for publicKey unwraps with the recipient's
\* private key to a DEK that opens the envelope's ciphertext to the payload
UnwrapsToPayloadDek(publicKey) ==
    LET entry == ObjGet(env.envelope.encryptedKeys, hashPublicKey(publicKey))
    IN  /\ entry # Undefined
        /\ LET dek == decryptDEKWithPrivateKey(entry.s, PrivateKeyFor(publicKey))
           IN  /\ dek.ok
               /\ decryptWithAES(env.envelope.encryptedData, dek.val,
                                 env.envelope.iv, env.envelope.authTag)
                     = Return(JSONStringify(env.data))

\* C25: the keys of encryptedKeys of an envelope are exactly the
\* fingerprints hashPublicKey(k) of the recipients k, and the entry under
\* each fingerprint unwraps, with that recipient's private key, to the DEK
\* that encrypted the payload.
C25_OneWrappedKeyPerRecipient ==
    env # None =>
        /\ {env.envelope.encryptedKeys[i].k : i \in DOMAIN env.envelope.encryptedKeys}
              = {hashPublicKey(env.partyPublicKeys[i]) : i \in DOMAIN env.partyPublicKeys}
        /\ \A i \in DOMAIN env.partyPublicKeys : UnwrapsToPayloadDek(env.partyPublicKeys[i])

\* an envelope for two different recipients, with two entries
C25_Witness ==
    /\ env # None
    /\ Len(env.partyPublicKeys) = 2
    /\ keyFromPublic(env.partyPublicKeys[1]) # keyFromPublic(env.partyPublicKeys[2])
    /\ Len(env.envelope.encryptedKeys) = 2
    /\ UnwrapsToPayloadDek(env.partyPublicKeys[2])

\* C11: createEncryptedEnvelope called with an empty recipient list fails
\* and returns no envelope.
C11_NoRecipients ==
    (env # None /\ env.partyPublicKeys = << >>)
    => "encryptedData" \notin DOMAIN env.envelope

\* the two stages of decryptEnvelope on the call recorded in dec
DekStage ==
    decryptDEKWithPrivateKey(
        ObjGet(dec.envelope.encryptedKeys, hashPublicKey(dec.publicKey)).s, dec.privateKey)

DekStageVerifies ==
    LET parsed == JSONParse(ObjGet(dec.envelope.encryptedKeys, hashPublicKey(dec.publicKey)).s)
    IN  TagVerifies(ObjGet(parsed, Str("encryptedDek")).s,
                    sha256(derive(keyFromPrivate(dec.privateKey),
                                  keyFromPublic(ObjGet(parsed, Str("ephemeralPublicKey")).s))),
                    ObjGet(parsed, Str("iv")).s,
                    ObjGet(parsed, Str("authTag")).s)

PayloadStageVerifies ==
    /\ DekStage.ok
    /\ TagVerifies(dec.envelope.encryptedData, DekStage.val,
                   dec.envelope.iv, dec.envelope.authTag)

\* a wrapped DEK is stored for the key presented
HasEntry ==
    ObjGet(dec.envelope.encryptedKeys, hashPublicKey(dec.publicKey)) # Undefined

\* a cause of failed verification: a private key that is not the one the DEK
\* was wrapped for, or a changed ciphertext, iv, tag or wrapped key
FailureCause ==
    \/ ~IsKeyPair(dec.privateKey, dec.publicKey)
    \/ dec.change \notin {"none", "authTag shortened"}

\* C12: whenever the authentication tag fails to verify in decryptEnvelope,
\* in the DEK stage or in the payload stage (wrong private key, or a changed
\* ciphertext, iv, authTag or wrapped key), the result is a failure that
\* carries no data.
C12_FailClosed ==
    (/\ dec # None
     /\ HasEntry
     /\ \/ ~DekStageVerifies
        \/ ~PayloadStageVerifies
        \/ FailureCause)
    => (/\ ~dec.result.success
        /\ "data" \notin DOMAIN dec.result)

\* a recipient opens with their own key pair an envelope whose payload
\* ciphertext was changed: the DEK unwraps, the payload stage fails
C12_Witness ==
    /\ dec # None
    /\ HasEntry
    /\ IsKeyPair(dec.privateKey, dec.publicKey)
    /\ dec.change = "encryptedData"
    /\ DekStageVerifies
    /\ ~PayloadStageVerifies
    /\ dec.result = [success |-> FALSE, error |-> AuthFailed]

(***************************************************************************)
(* Commitment operations.                                                  *)
(***************************************************************************)
\* a call generateCommitment(data, nonce): the first is kept in cm1, a
\* second one in cm2
GenerateCommitment ==
    /\ cm2 = None /\ cv = None /\ cvAny = None /\ cvResp = None
    /\ \E data \in Payloads, nonce \in NonceArgs, r \in Rnd :
         LET call == [data |-> data, nonce |-> nonce,
                      result |-> generateCommitment(data, nonce, r)]
         IN  IF cm1 = None
             THEN cm1' = call /\ cm2' = cm2
             ELSE cm2' = call /\ cm1' = cm1
    /\ UNCHANGED <<wsVars, drVars, svcVars, envVars, dsVars, sgVars, chainVars, disclosures, revoked, created, cv, cvAny, cvResp>>

\* commitment strings a verifier may hold for the first call's commitment
ExpectedCommitments == {cm1.result.commitment, UpperHex(cm1.result.commitment)}

\* values a caller may send as expectedCommitment: the commitment, the empty
\* string, a number, or nothing
ExpectedValues ==
    {StrVal(e) : e \in ExpectedCommitments \cup {EmptyString}} \cup {Num("12345"), Undefined}

\* a call verifyCommitment(data, nonce, expectedCommitment)
VerifyCommitment ==
    /\ cm1 # None /\ cm2 = None /\ cv = None /\ cvAny = None /\ cvResp = None
    /\ \E data \in Payloads \cup Tampered(cm1.data), nonce \in Nonces \cup {StrVal(cm1.result.nonce)},
          expected \in ExpectedCommitments, r \in Rnd :
         cv' = [data |-> data, nonce |-> nonce, expectedCommitment |-> expected,
                valid |-> verifyCommitment(data, nonce, expected, r)]
    /\ UNCHANGED <<wsVars, drVars, svcVars, envVars, dsVars, sgVars, chainVars, disclosures, revoked, created, cm1, cm2, cvAny, cvResp>>

\* POST /api/v1/commitments/verify with body {data, nonce, expectedCommitment}
PostCommitmentsVerify ==
    /\ cm1 # None /\ cm2 = None /\ cv = None /\ cvAny = None /\ cvResp = None
    /\ \E data \in Payloads \cup Tampered(cm1.data), nonce \in Nonces \cup {StrVal(cm1.result.nonce)},
          expected \in ExpectedValues, r \in Rnd :
         LET body    == [data |-> data, nonce |-> nonce, expectedCommitment |-> expected]
             checked == verifyCommitmentOutcome(data, nonce, expected, r)
         IN  IF ~Truthy(nonce) \/ ~Truthy(expected)
             THEN cvResp' = [body |-> body, status |-> 400]
             ELSE IF ~checked.ok
             THEN cvResp' = [body |-> body, status |-> 500]
             ELSE cvResp' = [body |-> body, status |-> 200, valid |-> checked.val]
    /\ UNCHANGED <<wsVars, drVars, svcVars, envVars, dsVars, sgVars, chainVars, disclosures, revoked, created, cm1, cm2, cv, cvAny>>

\* a call verifyCommitment(data, nonce, expectedCommitment) by a caller that
\* does not keep to the declared types
VerifyAnyValues ==
    /\ cm1 # None /\ cm2 = None /\ cv = None /\ cvAny = None /\ cvResp = None
    /\ \E data \in {cm1.data} \cup Tampered(cm1.data),
          nonce \in {StrVal(cm1.result.nonce), Num("7")},
          expected \in ExpectedValues, r \in Rnd :
         cvAny' = [data |-> data, nonce |-> nonce, expectedCommitment |-> expected,
                   outcome |-> verifyCommitmentOutcome(data, nonce, expected, r)]
    /\ UNCHANGED <<wsVars, drVars, svcVars, envVars, dsVars, sgVars, chainVars, disclosures, revoked, created, cm1, cm2, cv, cvResp>>

NextCommit ==
    GenerateCommitment \/ VerifyCommitment \/ PostCommitmentsVerify \/ VerifyAnyValues

SpecCommit == Init /\ [][NextCommit]_vars

\* the verification is of the first call's commitment, with the nonce given to that call
VerifiesFirstCall ==
    /\ cv # None
    /\ cm1.nonce # Undefined
    /\ cv.nonce = cm1.nonce
    /\ cv.expectedCommitment = cm1.result.commitment

\* C3: verifying P with n against generateCommitment(P, n).commitment is
\* true, and verifying any other payload P' with n against it is false.
C3_CommitmentVerify ==
    VerifiesFirstCall =>
        /\ (cv.data = cm1.data => cv.valid)
        /\ (cv.data # cm1.data => ~cv.valid)

\* C4: two calls with the same payload and the same supplied nonce return
\* the same hash and the supplied nonce; two different supplied nonces
\* give different hashes.
C4_CommitmentDeterminism ==
    (/\ cm1 # None /\ cm2 # None
     /\ cm1.data = cm2.data
     /\ cm1.nonce # Undefined /\ cm2.nonce # Undefined)
    => /\ cm1.nonce = cm2.nonce =>
            /\ cm1.result.commitment = cm2.result.commitment
            /\ cm1.result.nonce = cm1.nonce.s
            /\ cm2.result.nonce = cm2.nonce.s
       /\ cm1.nonce # cm2.nonce => cm1.result.commitment # cm2.result.commitment

\* the same (name, value) pairs, whatever the insertion order
SameFields(a, b) == {a[i] : i \in DOMAIN a} = {b[i] : i \in DOMAIN b}

\* C5: payloads with the same (name, value) pairs in a different insertion
\* order get the same hash for the same nonce, and each verifies against
\* the other's commitment.
C5_CanonicalSerialization ==
    /\ (/\ cm1 # None /\ cm2 # None
        /\ SameFields(cm1.data, cm2.data)
        /\ Truthy(cm1.nonce) /\ cm1.nonce = cm2.nonce)
       => cm1.result.commitment = cm2.result.commitment
    /\ (/\ VerifiesFirstCall
        /\ Truthy(cv.nonce)
        /\ SameFields(cv.data, cm1.data))
       => cv.valid

\* C13: verifyCommitment never throws, whatever its inputs (an expected
\* hash or a nonce that is not a string included), and returns false on
\* every mismatch.
C13_VerifyNeverThrows ==
    cvAny # None =>
        /\ cvAny.outcome.ok
        /\ (cvAny.expectedCommitment \notin {StrVal(e) : e \in ExpectedCommitments}
              => cvAny.outcome.val = FALSE)

(***************************************************************************)
(* Disclosure operations.                                                  *)
(***************************************************************************)
\* a call buildMerkleTree(fields): the first is kept in tree1, a second in tree2
BuildMerkleTree ==
    /\ tree2 = None /\ prf = None
    /\ \E fields \in Payloads :
         LET call == [fields |-> fields, result |-> buildMerkleTree(fields)]
         IN  IF tree1 = None
             THEN tree1' = call /\ tree2' = tree2
             ELSE tree2' = call /\ tree1' = tree1
    /\ UNCHANGED <<wsVars, drVars, svcVars, chainVars, envVars, cmVars, sgVars, prf, dver>>

\* a call generateMerkleProof(allFields, disclosedFieldNames) on tree1's fields
GenerateMerkleProof ==
    /\ tree1 # None /\ tree2 = None /\ prf = None
    /\ \E names \in NameLists :
         prf' = [allFields           |-> tree1.fields,
                 disclosedFieldNames |-> names,
                 result              |-> generateMerkleProof(tree1.fields, names)]
    /\ UNCHANGED <<wsVars, drVars, svcVars, chainVars, envVars, cmVars, sgVars, tree1, tree2, dver>>

\* the proof with its first digest left out
DropFirst(proof) ==
    LET hashes == JSONParseArray(proof)
    IN  IF hashes = << >> THEN proof ELSE JSONStringifyArray(Tail(hashes))

\* POST /api/v1/disclosures/verify with the disclosed data as received or
\* with one value changed, and the proof whole, cut short or not JSON
PostDisclosuresVerify ==
    /\ prf # None /\ dver = None
    /\ \E disclosedData \in {prf.result.disclosedFields} \cup Tampered(prf.result.disclosedFields),
          merkleProof \in {prf.result.proof, DropFirst(prf.result.proof), Str("not json")} :
         LET body == [disclosedData      |-> disclosedData,
                      merkleProof        |-> merkleProof,
                      originalMerkleRoot |-> tree1.result.root]
         IN  dver' = [body |-> body, response |-> disclosuresVerify(body)]
    /\ UNCHANGED <<wsVars, drVars, svcVars, chainVars, envVars, cmVars, sgVars, tree1, tree2, prf>>

NextDisclosure == BuildMerkleTree \/ GenerateMerkleProof \/ PostDisclosuresVerify

SpecDisclosure == Init /\ [][NextDisclosure]_vars

\* the names asked for, as a set
DisclosedNames == {prf.disclosedFieldNames[i] : i \in DOMAIN prf.disclosedFieldNames}

\* the names of the fields of the mapping
NamesOf(fields) == {fields[i].k : i \in DOMAIN fields}

\* the request carries the output of generateMerkleProof unchanged
HonestRequest ==
    /\ dver # None
    /\ dver.body.disclosedData = prf.result.disclosedFields
    /\ dver.body.merkleProof = prf.result.proof
    /\ dver.body.originalMerkleRoot = tree1.result.root

\* C6: the output of generateMerkleProof(F, S), for S any subset of F's
\* field names, verifies against buildMerkleTree(F).root.
C6_DisclosureCompleteness ==
    (HonestRequest /\ DisclosedNames \subseteq NamesOf(prf.allFields))
    => (dver.response.status = 200 /\ dver.response.valid)

\* one of two fields is disclosed and the request verifies
C6_Witness ==
    /\ HonestRequest
    /\ Len(prf.allFields) = 2
    /\ Cardinality(DisclosedNames) = 1
    /\ DisclosedNames \subseteq NamesOf(prf.allFields)
    /\ dver.response.status = 200
    /\ dver.response.valid

\* C7: a request whose disclosed data has a value changed after
\* generateMerkleProof does not verify against the original root.
C7_TamperDetection ==
    (/\ dver # None
     /\ dver.body.disclosedData \in Tampered(prf.result.disclosedFields)
     /\ dver.body.merkleProof = prf.result.proof
     /\ dver.body.originalMerkleRoot = tree1.result.root)
    => (dver.response.status = 200 => ~dver.response.valid)

\* the leaf digests of the fields that are not disclosed
NonDisclosedDigests ==
    {LeafHash(prf.allFields[i].k, prf.allFields[i].v) :
        i \in {j \in DOMAIN prf.allFields : prf.allFields[j].k \notin DisclosedNames}}

\* C8: the proof holds exactly the leaf digests of the fields not in S,
\* each once, and is empty when S covers all fields.
C8_ProofContent ==
    prf # None =>
        LET hashes == JSONParseArray(prf.result.proof)
        IN  /\ {hashes[i] : i \in DOMAIN hashes} = NonDisclosedDigests
            /\ Len(hashes) = Cardinality(NonDisclosedDigests)
            /\ (NamesOf(prf.allFields) \subseteq DisclosedNames => hashes = << >>)

\* the root rule: "0x" and the digest of the sorted leaf digests joined
RootRule(call) ==
    LET digests == {LeafHash(call.fields[i].k, call.fields[i].v) : i \in DOMAIN call.fields}
        sorted  == CHOOSE seq \in [1..Cardinality(digests) -> digests] :
                      /\ {seq[i] : i \in DOMAIN seq} = digests
                      /\ \A i, j \in DOMAIN seq : i < j => HexLess(seq[i], seq[j])
    IN  call.result.root = Str("0x") \o keccak256(Join(sorted))

\* C9: the root is the digest of the sorted leaf digests joined, the same
\* for any insertion order, and for no fields the same rule on no leaves,
\* encoded as every other root.
C9_DisclosureRoot ==
    /\ tree1 # None => RootRule(tree1)
    /\ (tree1 # None /\ tree2 # None /\ SameFields(tree1.fields, tree2.fields))
       => tree1.result.root = tree2.result.root

(***************************************************************************)
(* Signature operations.                                                   *)
(***************************************************************************)
\* a call signData(data, privateKey)
SignData ==
    /\ sig = None
    /\ \E data \in Messages, kp \in KeyPairs :
         sig' = [data |-> data, privateKey |-> kp.privateKey,
                 signature |-> signData(data, kp.privateKey)]
    /\ UNCHANGED <<wsVars, drVars, svcVars, chainVars, envVars, cmVars, dsVars, sv>>

\* a call verifySignature(data, signature, publicKey) with the signature
\* made before, or with bytes that are no signature
VerifySignature ==
    /\ sig # None /\ sv = None
    /\ \E data \in Messages, signature \in {sig.signature, Str("zz")},
          publicKey \in PublicKeyStrings :
         sv' = [data |-> data, signature |-> signature, publicKey |-> publicKey,
                valid |-> verifySignature(data, signature, publicKey)]
    /\ UNCHANGED <<wsVars, drVars, svcVars, chainVars, envVars, cmVars, dsVars, sig>>

NextSignature == SignData \/ VerifySignature

SpecSignature == Init /\ [][NextSignature]_vars

\* C10: the signature of m under priv verifies for m under the public key
\* of the same pair and does not verify under the key of another pair.
C10_SignatureRoundTrip ==
    (/\ sv # None
     /\ sv.data = sig.data
     /\ sv.signature = sig.signature)
    => (sv.valid <=> IsKeyPair(sig.privateKey, sv.publicKey))

\* the same signature is checked under another party's key and is refused
C10_Witness ==
    /\ sv # None
    /\ sv.data = sig.data
    /\ sv.signature = sig.signature
    /\ ~IsKeyPair(sig.privateKey, sv.publicKey)
    /\ ~sv.valid

(***************************************************************************)
(* Contract operations.                                                    *)
(***************************************************************************)
\* a transaction calling recordCommitment
RecordCommitment ==
    /\ \E commitmentId \in CommitmentIds, commitmentHash \in Bytes32Hashes,
          domainId \in DomainIds, partyHints \in HintLists, txType \in TxTypeNumbers,
          timestamp \in BlockTimes :
         LET out == recordCommitment(registry, commitmentId, commitmentHash, domainId,
                                     partyHints, txType, timestamp)
         IN  /\ registry' = out.registry
             /\ firstStored' =
                    IF ~out.reverted /\ firstStored[commitmentId] = {}
                    THEN [firstStored EXCEPT ![commitmentId] = {commitmentHash}]
                    ELSE firstStored
             /\ chainCall' = [fn |-> "recordCommitment", commitmentId |-> commitmentId,
                              hash |-> commitmentHash, reverted |-> out.reverted]
    /\ UNCHANGED <<wsVars, drVars, svcVars, envVars, cmVars, dsVars, sgVars>>

\* a call of the view verifyCommitment
RegistryVerifyCommitment ==
    /\ \E commitmentId \in CommitmentIds, expectedHash \in Bytes32Hashes :
         chainCall' = [fn |-> "verifyCommitment", commitmentId |-> commitmentId,
                       hash |-> expectedHash,
                       result |-> registryVerifyCommitment(registry, commitmentId, expectedHash)]
    /\ UNCHANGED <<wsVars, drVars, svcVars, envVars, cmVars, dsVars, sgVars, registry, firstStored>>

NextRegistry == RecordCommitment \/ RegistryVerifyCommitment

SpecRegistry == Init /\ [][NextRegistry]_vars

\* C18: verifyCommitment(id, h) returns true exactly when the first
\* successful recordCommitment for id stored h; a recordCommitment for an id
\* that already exists reverts and leaves the stored commitment unchanged.
C18_RegistryWriteOnce ==
    [][/\ chainCall'.fn = "verifyCommitment"
          => chainCall'.result = (chainCall'.hash \in firstStored'[chainCall'.commitmentId])
       /\ (chainCall'.fn = "recordCommitment"
            /\ registry.commitments[chainCall'.commitmentId].exists)
          => (chainCall'.reverted /\ registry' = registry)
       /\ \A id \in CommitmentIds :
            registry.commitments[id].exists
               => registry'.commitments[id] = registry.commitments[id]]_vars

\* a second recordCommitment with another hash for a recorded id has
\* reverted and the first hash is still the one stored
C18_Witness ==
    /\ chainCall # None
    /\ chainCall.fn = "recordCommitment"
    /\ chainCall.reverted
    /\ chainCall.hash # 0
    /\ registry.commitments[chainCall.commitmentId].exists
    /\ registry.commitments[chainCall.commitmentId].commitmentHash # chainCall.hash
    /\ registry.commitments[chainCall.commitmentId].commitmentHash
          \in firstStored[chainCall.commitmentId]

(***************************************************************************)
(* Service operations: registration, creation and reading of transactions. *)
(***************************************************************************)
Registered == {q \in PartyIds : partyTable[q] # None}

\* POST /auth/register with the e-mail address of party email: a new party
\* (the next id) or an address already registered.  Parties register before
\* the transaction is created.
Register ==
    /\ tx = None
    /\ \E email \in PartyIds :
         /\ \A q \in 1..(email - 1) : q \in Registered
         /\ IF email \in Registered
            THEN /\ resp' = [route |-> "register", caller |-> email,
                             status |-> 400]
                 /\ UNCHANGED partyTable
            ELSE LET identityKeyPair   == generateKeyPair(IdentityScalar(email))
                     encryptionKeyPair == generateKeyPair(EncryptionScalar(email))
                 IN  /\ partyTable' = [partyTable EXCEPT ![email] =
                                          [publicKey     |-> identityKeyPair.publicKey,
                                           encryptionKey |-> encryptionKeyPair.publicKey]]
                     /\ resp' = [route |-> "register", caller |-> email,
                                 status |-> 201,
                                 body |-> [party |-> [id |-> email,
                                                      publicKey |-> identityKeyPair.publicKey,
                                                      encryptionKey |-> encryptionKeyPair.publicKey],
                                           keys |-> [identityPrivateKey   |-> identityKeyPair.privateKey,
                                                     encryptionPrivateKey |-> encryptionKeyPair.privateKey]]]
    /\ UNCHANGED <<wsVars, drVars, envVars, cmVars, dsVars, sgVars, chainVars, disclosures, revoked, created, tx, auditLog, reqs, taken, ledgerCalls>>

\* POST /transactions by an authenticated party, without domainId, the
\* body taken from bodies
CreateTransactionFrom(bodies) ==
    /\ tx = None
    /\ \E currentPartyId \in Registered, body \in bodies, r \in Rnd :
         LET parties == BuildParties(currentPartyId, body.parties, body.counterpartyEmail)
         IN  IF \E i \in DOMAIN parties : parties[i].partyId \notin Registered
             THEN /\ resp' = [route |-> "create", caller |-> currentPartyId,
                              status |-> 400]
                  /\ UNCHANGED <<tx, auditLog, created>>
             ELSE LET transaction == NewTransaction(partyTable, currentPartyId, body, r)
                  IN  /\ tx' = transaction
                      /\ created' = [caller |-> currentPartyId, payload |-> body.payload]
                      /\ auditLog' = auditLog \cup
                            {[action |-> "TRANSACTION_CREATED", actorId |-> currentPartyId]}
                      /\ resp' = [route |-> "create", caller |-> currentPartyId,
                                  status |-> 201,
                                  body |-> [transactionId  |-> transaction.transactionId,
                                            type           |-> transaction.txType,
                                            status         |-> transaction.status,
                                            commitmentHash |-> transaction.commitmentHash,
                                            merkleRoot     |-> transaction.merkleRoot,
                                            parties        |-> PartySummaries(transaction)]]
    /\ UNCHANGED <<wsVars, drVars, envVars, cmVars, dsVars, sgVars, chainVars, disclosures, revoked, partyTable, reqs, taken, ledgerCalls>>

CreateTransaction == CreateTransactionFrom(CreateBodies)

\* POST /transactions with the bodies the disclosure routes are run on
CreateForDisclosure == CreateTransactionFrom(DisclosureBodies)

\* the last response answered a request that reads a transaction
AfterRead ==
    resp # None /\ resp.route \in {"list", "get", "decrypt", "disclosure get", "disclosure decrypt"}

\* GET /transactions
ListTransactions ==
    /\ ~AfterRead
    /\ \E currentPartyId \in Registered :
         resp' = [route |-> "list", caller |-> currentPartyId,
                  status |-> 200,
                  body |-> [transactions |->
                              IF tx # None /\ IsPartyOf(tx, currentPartyId)
                              THEN <<[transactionId  |-> tx.transactionId,
                                      type           |-> tx.txType,
                                      status         |-> tx.status,
                                      commitmentHash |-> tx.commitmentHash,
                                      parties        |-> PartySummaries(tx),
                                      committed      |-> tx.commitmentTxHash # None]>>
                              ELSE << >>]]
    /\ UNCHANGED <<wsVars, drVars, envVars, cmVars, dsVars, sgVars, chainVars, disclosures, revoked, created, partyTable, tx, auditLog, reqs, taken, ledgerCalls>>

\* GET /transactions/:id
GetTransaction ==
    /\ ~AfterRead
    /\ \E currentPartyId \in Registered :
         IF ~(tx # None /\ IsPartyOf(tx, currentPartyId))
         THEN resp' = [route |-> "get", caller |-> currentPartyId,
                       status |-> 404]
         ELSE LET partyData == PartyRecordOf(tx, currentPartyId)
              IN  resp' = [route |-> "get", caller |-> currentPartyId,
                           status |-> 200,
                           body |-> [transactionId    |-> tx.transactionId,
                                     type             |-> tx.txType,
                                     status           |-> tx.status,
                                     commitmentHash   |-> tx.commitmentHash,
                                     commitmentTxHash |-> tx.commitmentTxHash,
                                     merkleRoot       |-> tx.merkleRoot,
                                     parties          |-> PartySummaries(tx),
                                     encryptedEnvelope |->
                                        IF partyData # None
                                        THEN [encryptedPayload |-> partyData.encryptedPayload,
                                              encryptedDek     |-> partyData.encryptedDek]
                                        ELSE None]]
    /\ UNCHANGED <<wsVars, drVars, envVars, cmVars, dsVars, sgVars, chainVars, disclosures, revoked, created, partyTable, tx, auditLog, reqs, taken, ledgerCalls>>

\* private keys a party may put into a request body: its own two keys
OwnPrivateKeys(q) ==
    {generateKeyPair(IdentityScalar(q)).privateKey, generateKeyPair(EncryptionScalar(q)).privateKey}

\* POST /transactions/:id/decrypt with body {privateKey}, or with an empty body
DecryptTransaction ==
    /\ ~AfterRead
    /\ \E currentPartyId \in Registered :
       \E request \in {EmptyObject} \cup
                      {<<[k |-> Str("privateKey"), v |-> StrVal(key)]>> :
                          key \in OwnPrivateKeys(currentPartyId)} :
         LET privateKey == ObjGet(request, Str("privateKey"))
             answer(status) == [route |-> "decrypt", caller |-> currentPartyId,
                                request |-> request, status |-> status]
         IN  IF ~Truthy(privateKey) THEN resp' = answer(400)
             ELSE IF ~(tx # None /\ IsPartyOf(tx, currentPartyId)) THEN resp' = answer(404)
             ELSE IF PartyRecordOf(tx, currentPartyId) = None THEN resp' = answer(404)
             ELSE LET partyData        == PartyRecordOf(tx, currentPartyId)
                      encryptedPayload == JSONParse(partyData.encryptedPayload)
                      encryptionKey    == partyTable[currentPartyId].encryptionKey
                      envelope ==
                         [encryptedData |-> ObjGet(encryptedPayload, Str("encryptedData")).s,
                          iv            |-> ObjGet(encryptedPayload, Str("iv")).s,
                          authTag       |-> ObjGet(encryptedPayload, Str("authTag")).s,
                          encryptedKeys |-> <<[k |-> hashPublicKey(encryptionKey),
                                               v |-> StrVal(partyData.encryptedDek)]>>]
                      result == decryptEnvelope(envelope, privateKey.s, encryptionKey)
                  IN  IF ~result.success THEN resp' = answer(400)
                      ELSE resp' = [route |-> "decrypt", caller |-> currentPartyId,
                                    request |-> request, status |-> 200,
                                    body |-> [transactionId |-> tx.transactionId,
                                              payload |-> WithoutInternal(result.data)]]
    /\ UNCHANGED <<wsVars, drVars, envVars, cmVars, dsVars, sgVars, chainVars, disclosures, revoked, created, partyTable, tx, auditLog, reqs, taken, ledgerCalls>>

NextAccess ==
    Register \/ CreateTransaction \/ ListTransactions \/ GetTransaction \/ DecryptTransaction

SpecAccess == Init /\ [][NextAccess]_vars

\* C15: GET /transactions, GET /transactions/:id and POST
\* /transactions/:id/decrypt return data of the transaction only to a caller
\* that is one of its parties; any other caller gets an empty list or the
\* 404 "not found or access denied" answer, with no transaction data.
C15_PartyOnlyAccess ==
    (/\ AfterRead
     /\ tx # None
     /\ \A i \in DOMAIN tx.parties : tx.parties[i].partyId # resp.caller)
    => /\ resp.route = "list" => resp.body.transactions = << >>
       /\ resp.route = "get" => (resp.status = 404 /\ "body" \notin DOMAIN resp)
       /\ resp.route = "decrypt" => (resp.status \in {400, 404} /\ "body" \notin DOMAIN resp)

\* a registered party outside a two-party transaction asks for it with its
\* own key and gets the 404 answer
C15_Witness ==
    /\ AfterRead
    /\ tx # None
    /\ Len(tx.parties) = 2
    /\ resp.caller \in Registered
    /\ \A i \in DOMAIN tx.parties : tx.parties[i].partyId # resp.caller
    /\ resp.route = "decrypt"
    /\ ObjHas(resp.request, Str("privateKey"))
    /\ resp.status = 404

(***************************************************************************)
(* Service operations: signing and committing.  A handler runs up to its   *)
(* next await in one step; the database executes one query per step.  A    *)
(* request refused by a check changes nothing.                             *)
(***************************************************************************)
\* the bag with one handler added, taken out, or moved on
Started(bag, handler)  == bag (+) SetToBag({handler})
Finished(bag, handler) == bag (-) SetToBag({handler})
Moved(bag, handler, pc) == Started(Finished(bag, handler), [handler EXCEPT !.pc = pc])

\* POST /transactions/:id/sign up to the first update: the body is parsed,
\* the transaction read and checked, the commitment hash signed and the
\* signature verified
SignRead ==
    /\ taken < MaxRequests
    /\ \E currentPartyId \in Registered :
       \E request \in {EmptyObject} \cup
                      {<<[k |-> Str("privateKey"), v |-> StrVal(key)]>> :
                          key \in OwnPrivateKeys(currentPartyId)} :
         LET privateKey == ObjGet(request, Str("privateKey"))
         IN  /\ privateKey # Undefined
             /\ tx # None
             /\ IsSignatoryOf(tx, currentPartyId)
             /\ tx.status # "COMMITTED"
             /\ PartyRecordOf(tx, currentPartyId) # None
             /\ PartyRecordOf(tx, currentPartyId).signature = None
             /\ LET signature == signData(tx.commitmentHash, privateKey.s)
                IN  /\ verifySignature(tx.commitmentHash, signature,
                                       partyTable[currentPartyId].publicKey)
                    /\ reqs' = Started(reqs, [kind        |-> "sign",
                                              caller      |-> currentPartyId,
                                              pc          |-> "update signature",
                                              transaction |-> tx,
                                              request     |-> request,
                                              signature   |-> signature])
    /\ taken' = taken + 1
    /\ UNCHANGED <<wsVars, drVars, envVars, cmVars, dsVars, sgVars, chainVars, disclosures, revoked, created, partyTable, tx, auditLog,
                   ledgerCalls, resp>>

\* prisma.transactionParty.update of a sign request: the party's row gets
\* the signature
SignUpdateSignature ==
    /\ \E handler \in BagToSet(reqs) :
         /\ handler.kind = "sign"
         /\ handler.pc = "update signature"
         /\ tx' = [tx EXCEPT !.parties =
                     [i \in DOMAIN tx.parties |->
                        IF tx.parties[i].partyId = handler.caller
                        THEN [tx.parties[i] EXCEPT !.signature = StrVal(handler.signature)]
                        ELSE tx.parties[i]]]
         /\ reqs' = Moved(reqs, handler, "update status")
    /\ UNCHANGED <<wsVars, drVars, envVars, cmVars, dsVars, sgVars, chainVars, disclosures, revoked, created, partyTable, auditLog,
                   taken, ledgerCalls, resp>>

\* prisma.privateTransaction.update of a sign request: the status computed
\* from the rows the request read is written; then the audit entry and
\* the answer
SignUpdateStatus ==
    /\ \E handler \in BagToSet(reqs) :
         /\ handler.kind = "sign"
         /\ handler.pc = "update status"
         /\ tx' = [tx EXCEPT !.status = NewStatus(handler.transaction, handler.caller)]
         /\ auditLog' = auditLog \cup
                {[action |-> "TRANSACTION_SIGNED", actorId |-> handler.caller]}
         /\ reqs' = Finished(reqs, handler)
    /\ UNCHANGED <<wsVars, drVars, envVars, cmVars, dsVars, sgVars, chainVars, disclosures, revoked, created, partyTable, taken,
                   ledgerCalls, resp>>

\* POST /transactions/:id/commit up to the call of
\* blockchain.recordCommitment: the transaction is read and checked and the
\* call is made
CommitRead ==
    /\ taken < MaxRequests
    /\ \E currentPartyId \in Registered :
         /\ tx # None
         /\ IsSignatoryOf(tx, currentPartyId)
         /\ tx.status = "FULLY_SIGNED"
         /\ tx.commitmentTxHash = None
         /\ ledgerCalls' = Append(ledgerCalls,
                                  [data |-> CommitmentDataOf(tx), by |-> currentPartyId])
         /\ reqs' = Started(reqs, [kind        |-> "commit",
                                   caller      |-> currentPartyId,
                                   pc          |-> "record commitment",
                                   transaction |-> tx])
    /\ taken' = taken + 1
    /\ UNCHANGED <<wsVars, drVars, envVars, cmVars, dsVars, sgVars, chainVars, disclosures, revoked, created, partyTable, tx, auditLog, resp>>

\* blockchain.recordCommitment answers a commit request.  It throws when the
\* provider cannot be reached, and when a registry contract is configured
\* (ethers.toBeHex rejects the id "TXN-..."); without a registry it returns
\* the simulated hash, and the handler writes COMMITTED, the hash and the
\* audit entry.
CommitFinish ==
    /\ \E handler \in BagToSet(reqs), thrown \in BOOLEAN :
         /\ handler.kind = "commit"
         /\ handler.pc = "record commitment"
         /\ IF thrown
            THEN UNCHANGED <<tx, auditLog>>
            ELSE /\ tx' = [tx EXCEPT
                             !.status = "COMMITTED",
                             !.commitmentTxHash =
                                 StrVal(SimulatedTxHash(handler.transaction.transactionId))]
                 /\ auditLog' = auditLog \cup
                        {[action |-> "TRANSACTION_COMMITTED", actorId |-> handler.caller]}
         /\ reqs' = Finished(reqs, handler)
    /\ UNCHANGED <<wsVars, drVars, envVars, cmVars, dsVars, sgVars, chainVars, disclosures, revoked, created, partyTable, taken,
                   ledgerCalls, resp>>

NextLifecycle ==
    \/ Register \/ CreateTransaction
    \/ SignRead \/ SignUpdateSignature \/ SignUpdateStatus
    \/ CommitRead \/ CommitFinish

SpecLifecycle == Init /\ [][NextLifecycle]_vars

(***************************************************************************)
(* Service operations: disclosures.                                        *)
(***************************************************************************)
\* POST /disclosures by an authenticated party; one disclosure is created
\* on the transaction
CreateDisclosure ==
    /\ disclosures = {} /\ revoked = {}
    /\ \E currentPartyId \in Registered, receiverId \in PartyIds,
          disclosedFields \in DisclosedFieldLists,
          expiresInDays \in ExpiresInDaysInputs, r \in Rnd :
         LET answer(status) == [route |-> "disclose", caller |-> currentPartyId,
                                status |-> status]
         IN  IF ~(tx # None /\ IsPartyOf(tx, currentPartyId))
             THEN resp' = answer(404) /\ UNCHANGED <<disclosures, auditLog>>
             ELSE IF partyTable[receiverId] = None
             THEN resp' = answer(404) /\ UNCHANGED <<disclosures, auditLog>>
             ELSE IF \E d \in disclosures : d.grantorId = currentPartyId /\ d.receiverId = receiverId
             THEN resp' = answer(400) /\ UNCHANGED <<disclosures, auditLog>>
             ELSE /\ disclosures' = disclosures \cup
                        {NewDisclosure(partyTable, currentPartyId, receiverId,
                                       disclosedFields, expiresInDays, r)}
                  /\ auditLog' = auditLog \cup
                        {[action |-> "DISCLOSURE_CREATED", actorId |-> currentPartyId]}
                  /\ resp' = answer(201)
    /\ UNCHANGED <<wsVars, drVars, envVars, cmVars, dsVars, sgVars, chainVars, revoked, created, partyTable, tx,
                   reqs, taken, ledgerCalls>>

\* GET /disclosures/:id for a disclosure that exists or has existed, the
\* request arriving elapsed days after its creation
GetDisclosure ==
    /\ ~AfterRead
    /\ \E currentPartyId \in Registered, target \in disclosures \cup revoked,
          elapsed \in ElapsedDays :
         LET answer(status) == [route |-> "disclosure get", caller |-> currentPartyId,
                                target |-> target, elapsed |-> elapsed, status |-> status]
         IN  IF ~(target \in disclosures /\ IsReceiverOrGrantor(target, currentPartyId))
             THEN resp' = answer(404)
             ELSE IF Expired(target, elapsed) THEN resp' = answer(410)
             ELSE LET response == [transactionId   |-> tx.transactionId,
                                   merkleRoot      |-> tx.merkleRoot,
                                   grantor         |-> target.grantorId,
                                   receiver        |-> target.receiverId,
                                   disclosedFields |-> target.disclosedFields]
                  IN  resp' = [route |-> "disclosure get", caller |-> currentPartyId,
                               target |-> target, elapsed |-> elapsed, status |-> 200,
                               body |-> IF IsReceiver(target, currentPartyId)
                                        THEN [transactionId     |-> response.transactionId,
                                              merkleRoot        |-> response.merkleRoot,
                                              grantor           |-> response.grantor,
                                              receiver          |-> response.receiver,
                                              disclosedFields   |-> response.disclosedFields,
                                              encryptedEnvelope |->
                                                  ParseEnvelope(target.encryptedDisclosure),
                                              merkleProof       |-> target.merkleProof]
                                        ELSE response]
    /\ UNCHANGED <<wsVars, drVars, envVars, cmVars, dsVars, sgVars, chainVars, disclosures, revoked, created,
                   partyTable, tx, auditLog, reqs, taken, ledgerCalls>>

\* POST /disclosures/:id/decrypt with body {privateKey}, or with an empty
\* body, for a disclosure that exists or has existed
DecryptDisclosure ==
    /\ ~AfterRead
    /\ \E currentPartyId \in Registered, target \in disclosures \cup revoked,
          elapsed \in ElapsedDays :
       \E request \in {EmptyObject} \cup
                      {<<[k |-> Str("privateKey"), v |-> StrVal(key)]>> :
                          key \in OwnPrivateKeys(currentPartyId)} :
         LET privateKey == ObjGet(request, Str("privateKey"))
             answer(status) == [route |-> "disclosure decrypt", caller |-> currentPartyId,
                                target |-> target, elapsed |-> elapsed,
                                request |-> request, status |-> status]
         IN  IF ~Truthy(privateKey) THEN resp' = answer(400)
             ELSE IF ~(target \in disclosures /\ target.receiverId = currentPartyId)
             THEN resp' = answer(404)
             ELSE IF Expired(target, elapsed) THEN resp' = answer(410)
             ELSE LET envelope == ParseEnvelope(target.encryptedDisclosure)
                      result == decryptEnvelope(envelope, privateKey.s,
                                                partyTable[currentPartyId].encryptionKey)
                  IN  IF ~result.success THEN resp' = answer(400)
                      ELSE resp' = [route |-> "disclosure decrypt", caller |-> currentPartyId,
                                    target |-> target, elapsed |-> elapsed,
                                    request |-> request, status |-> 200,
                                    body |-> [transactionId   |-> tx.transactionId,
                                              disclosedFields |-> target.disclosedFields,
                                              disclosedData   |-> result.data,
                                              merkleRoot      |-> tx.merkleRoot,
                                              merkleProof     |-> target.merkleProof]]
    /\ UNCHANGED <<wsVars, drVars, envVars, cmVars, dsVars, sgVars, chainVars, disclosures, revoked, created,
                   partyTable, tx, auditLog, reqs, taken, ledgerCalls>>

\* DELETE /disclosures/:id for a disclosure that exists or has existed
RevokeDisclosure ==
    /\ \E currentPartyId \in Registered, target \in disclosures \cup revoked :
         LET answer(status) == [route |-> "revoke", caller |-> currentPartyId,
                                target |-> target, status |-> status]
         IN  IF ~(target \in disclosures /\ target.grantorId = currentPartyId)
             THEN resp' = answer(404) /\ UNCHANGED <<disclosures, revoked, auditLog>>
             ELSE /\ disclosures' = disclosures \ {target}
                  /\ revoked' = revoked \cup {target}
                  /\ auditLog' = auditLog \cup
                        {[action |-> "DISCLOSURE_REVOKED", actorId |-> currentPartyId]}
                  /\ resp' = answer(200)
    /\ UNCHANGED <<wsVars, drVars, envVars, cmVars, dsVars, sgVars, chainVars, created, partyTable, tx,
                   reqs, taken, ledgerCalls>>

NextDisclose ==
    \/ Register \/ CreateForDisclosure \/ CreateDisclosure
    \/ GetDisclosure \/ DecryptDisclosure \/ RevokeDisclosure

SpecDisclose == Init /\ [][NextDisclose]_vars

\* the root a receiver computes from disclosed data and a proof: the leaf
\* digests of the data and the digests of the proof that are not among
\* them, sorted, joined and hashed as buildMerkleTree does
ReconstructedRoot(disclosedData, merkleProof) ==
    LET leafValues  == ObjValues(buildMerkleTree(disclosedData).leaves)
        proofHashes == JSONParseArray(merkleProof)
        allHashes   == SortHashes(leafValues \o FilterNotIn(proofHashes, leafValues))
    IN  IF Len(allHashes) = 0 THEN keccak256(EmptyString)
        ELSE Str("0x") \o keccak256(Join(allHashes))

\* C20: for every disclosure created on a transaction, the stored
\* merkleProof together with the disclosed data reconstructs the merkleRoot
\* stored for the transaction at creation.
C20_DisclosureAuthenticity ==
    (/\ resp # None
     /\ resp.route = "disclosure decrypt"
     /\ resp.status = 200)
    => ReconstructedRoot(resp.body.disclosedData, resp.body.merkleProof) = resp.body.merkleRoot

\* private keys the service holds: in the body of a request it is handling
\* or has just answered, and in the keys it generated for a registration
KeysInRequests ==
    {handler.request : handler \in {h \in BagToSet(reqs) : h.kind = "sign"}}
        \cup (IF resp # None /\ "request" \in DOMAIN resp THEN {resp.request} ELSE {})

KeysGenerated ==
    IF resp # None /\ resp.route = "register" /\ resp.status = 201
    THEN {resp.body.keys.identityPrivateKey, resp.body.keys.encryptionPrivateKey}
    ELSE {}

\* C14: across register, sign and decrypt, a party's private key is never
\* transmitted to the service and never held by it: no request body carries
\* a private key and the service produces none.
C14_PrivateKeyCustody ==
    /\ \A request \in KeysInRequests : ~ObjHas(request, Str("privateKey"))
    /\ KeysGenerated = {}

\* the place of a status in PENDING -> PARTIALLY_SIGNED -> FULLY_SIGNED ->
\* COMMITTED
StatusOrder == <<"PENDING", "PARTIALLY_SIGNED", "FULLY_SIGNED", "COMMITTED">>
StatusPlace(status) == CHOOSE i \in DOMAIN StatusOrder : StatusOrder[i] = status

\* C16: under any interleaving of sign and commit requests the status of a
\* transaction only moves forward along PENDING -> PARTIALLY_SIGNED ->
\* FULLY_SIGNED -> COMMITTED, and a COMMITTED transaction stays COMMITTED.
C16_StatusForwardOnly ==
    [][(tx # None /\ tx' # None)
         => StatusPlace(tx'.status) >= StatusPlace(tx.status)]_vars

\* every SIGNATORY row of the transaction carries a signature
EverySignatorySigned ==
    \A i \in AllSignatories(tx) : tx.parties[i].signature # None

\* C17: a transaction is handed to the ledger and set to COMMITTED only if
\* every party with role SIGNATORY has a recorded signature; no state has a
\* COMMITTED transaction with an unsigned signatory.
C17_CommitRequiresFullSigning ==
    (tx # None /\ (tx.status = "COMMITTED" \/ ledgerCalls # << >>))
        => EverySignatorySigned

\* a transaction with two signatories has been committed
C17_Witness ==
    /\ tx # None
    /\ tx.status = "COMMITTED"
    /\ ledgerCalls # << >>
    /\ Cardinality(AllSignatories(tx)) = 2

\* C19: the txType passed to blockchain.recordCommitment is the number of
\* the transaction's own type under TRADE_FINANCE=0, RWA_TRANSFER=1,
\* DVP_SETTLEMENT=2, PAYMENT=3, CUSTOM=4.
C19_LedgerTxType ==
    \A i \in DOMAIN ledgerCalls : ledgerCalls[i].data.txType = txTypeMap[tx.txType]

\* the fingerprints of a party, as the commit route writes a hint: "0x" and
\* hashPublicKey of its identity key or of its encryption key
FingerprintsOf(partyId) ==
    {Str("0x") \o hashPublicKey(key) :
        key \in {partyTable[partyId].publicKey, partyTable[partyId].encryptionKey}}

\* C21: the partyHints passed to blockchain.recordCommitment are the
\* fingerprints (hashPublicKey of the public key) of the transaction's
\* parties, one per party.
C21_RecipientHints ==
    \A i \in DOMAIN ledgerCalls :
        LET partyHints == ledgerCalls[i].data.partyHints
        IN  /\ Len(partyHints) = Len(tx.parties)
            /\ \A j \in DOMAIN tx.parties :
                   partyHints[j] \in FingerprintsOf(tx.parties[j].partyId)

\* no sign request is between its read and its last write
NoSignInFlight == \A handler \in BagToSet(reqs) : handler.kind # "sign"

\* C22: whenever every SIGNATORY of a transaction has a recorded signature
\* and no sign request is still being handled, the status is FULLY_SIGNED
\* or COMMITTED, also when the sign requests were handled concurrently.
C22_SigningCompletes ==
    (/\ tx # None
     /\ AllSignatories(tx) # {}
     /\ EverySignatorySigned
     /\ NoSignInFlight)
    => tx.status \in {"FULLY_SIGNED", "COMMITTED"}

\* C23: blockchain.recordCommitment is invoked at most once for a
\* transaction under any interleaving of commit requests.
C23_SingleLedgerRecord == Len(ledgerCalls) <= 1

\* C24: every transaction created through POST /transactions has its
\* creator among its parties with role SIGNATORY, whatever parties list and
\* counterpartyEmail the request carries.
C24_CreatorIsSignatory ==
    \A entry \in auditLog :
        entry.action = "TRANSACTION_CREATED" => IsSignatoryOf(tx, entry.actorId)

\* the nonce held in the envelope of the transaction: the _nonce member of
\* the text that was encrypted
EnvelopeNonce ==
    LET encryptedPayload == JSONParse(tx.parties[1].encryptedPayload)
        plaintext == BufferFromHex(ObjGet(encryptedPayload, Str("encryptedData")).s).aes
    IN  ObjGet(JSONParse(plaintext), Str("_nonce"))

\* the last request was a party's decrypt request with its own encryption
\* private key
DecryptedWithOwnKey ==
    /\ resp # None
    /\ resp.route = "decrypt"
    /\ tx # None
    /\ IsPartyOf(tx, resp.caller)
    /\ ObjGet(resp.request, Str("privateKey"))
         = StrVal(generateKeyPair(EncryptionScalar(resp.caller)).privateKey)

\* C26: for every payload submitted to POST /transactions, also one with a
\* field named _nonce or _transactionId, a party's decrypt request with the
\* correct private key returns a payload equal to the submitted one, and
\* that payload with the nonce held in the envelope verifies against the
\* stored commitmentHash.
C26_StoredPayloadRoundTrip ==
    DecryptedWithOwnKey =>
        /\ resp.status = 200
        /\ resp.body.payload = created.payload
        /\ verifyCommitment(resp.body.payload, EnvelopeNonce, tx.commitmentHash, 1)

\* the last response answered a request for a disclosure
AfterDisclosureRead ==
    resp # None /\ resp.route \in {"disclosure get", "disclosure decrypt"}

\* the response carries the encrypted envelope or the merkle proof
CarriesDisclosure ==
    /\ "body" \in DOMAIN resp
    /\ DOMAIN resp.body \cap {"encryptedEnvelope", "merkleProof", "disclosedData"} # {}

ClientIdOf(partyId, now) == [partyId |-> partyId, at |-> now]

\* clients.set(clientId, entry): an entry under the same key is replaced
ClientsSet(map, entry) == {e \in map : e.clientId # entry.clientId} \cup {entry}

\* clients.delete(clientId)
ClientsDelete(map, clientId) == {e \in map : e.clientId # clientId}

\* clients.has(clientId)
ClientsHas(map, clientId) == \E e \in map : e.clientId = clientId

\* the connections broadcastToParties(partyIds, ..) sends on
PartyRecipients(partyIds) == {e.ws : e \in {x \in clients : x.partyId \in partyIds}}

\* the connections broadcastToChannel(channel, ..) sends on
ChannelRecipients(channel) == {e.ws : e \in {x \in clients : channel \in x.subscriptions}}

\* getConnectedClients()
getConnectedClients == Cardinality(clients)

\* a client connects: the route handler runs and sends the welcome message
WsConnect ==
    /\ \E c \in Connections :
         /\ connections[c].state = "none"
         /\ connections' = [connections EXCEPT ![c] =
                               [state |-> "open", clientId |-> None, partyId |-> None]]
    /\ UNCHANGED <<envVars, cmVars, dsVars, sgVars, chainVars, svcVars, drVars, clients, clock>>

\* ws.on('message'): one message arrives on an open connection; an auth
\* message reads Date.now().  What the handler sends back is not state: a
\* ping, an unknown type and text that is no JSON change nothing
WsMessage ==
    /\ \E c \in Connections, data \in WsMessages, now \in clock..MaxTime :
         LET conn == connections[c]
         IN  /\ conn.state = "open"
             /\ IF "notJSON" \in DOMAIN data
                THEN UNCHANGED <<connections, clients, clock>>
                ELSE IF data.type = "auth"
                THEN IF "partyId" \in DOMAIN data.token
                     THEN LET partyId  == data.token.partyId
                              clientId == ClientIdOf(partyId, now)
                          IN  /\ clock' = now
                              /\ clients' = ClientsSet(clients,
                                               [clientId |-> clientId, ws |-> c,
                                                partyId |-> partyId, subscriptions |-> {}])
                              /\ connections' = [connections EXCEPT ![c] =
                                                    [state |-> "open", clientId |-> clientId,
                                                     partyId |-> partyId]]
                     ELSE UNCHANGED <<connections, clients, clock>>
                ELSE IF data.type = "subscribe"
                THEN IF conn.clientId # None /\ ClientsHas(clients, conn.clientId)
                        /\ "channel" \in DOMAIN data
                     THEN /\ clients' = {IF e.clientId = conn.clientId
                                          THEN [e EXCEPT !.subscriptions = @ \cup {data.channel}]
                                          ELSE e : e \in clients}
                          /\ UNCHANGED <<connections, clock>>
                     ELSE UNCHANGED <<connections, clients, clock>>
                ELSE IF data.type = "unsubscribe"
                THEN IF conn.clientId # None /\ ClientsHas(clients, conn.clientId)
                     THEN /\ clients' = {IF e.clientId = conn.clientId
                                          THEN [e EXCEPT !.subscriptions = @ \ {data.channel}]
                                          ELSE e : e \in clients}
                          /\ UNCHANGED <<connections, clock>>
                     ELSE UNCHANGED <<connections, clients, clock>>
                ELSE UNCHANGED <<connections, clients, clock>>
    /\ UNCHANGED <<envVars, cmVars, dsVars, sgVars, chainVars, svcVars, drVars>>

\* ws.on('close'): the close event of an open connection, or of one that
\* had an error
WsClose ==
    /\ \E c \in Connections :
         /\ connections[c].state \in {"open", "error"}
         /\ clients' = IF connections[c].clientId # None
                        THEN ClientsDelete(clients, connections[c].clientId)
                        ELSE clients
         /\ connections' = [connections EXCEPT ![c].state = "closed"]
    /\ UNCHANGED <<envVars, cmVars, dsVars, sgVars, chainVars, svcVars, drVars, clock>>

\* ws.on('error'): the error event of an open connection; no message is
\* received on it afterwards
WsError ==
    /\ \E c \in Connections :
         /\ connections[c].state = "open"
         /\ clients' = IF connections[c].clientId # None
                        THEN ClientsDelete(clients, connections[c].clientId)
                        ELSE clients
         /\ connections' = [connections EXCEPT ![c].state = "error"]
    /\ UNCHANGED <<envVars, cmVars, dsVars, sgVars, chainVars, svcVars, drVars, clock>>

NextWebSocket == WsConnect \/ WsMessage \/ WsClose \/ WsError

SpecWebSocket == Init /\ [][NextWebSocket]_vars

\* connections that are open and have authenticated
OpenAuthenticated ==
    {c \in Connections : connections[c].state = "open" /\ connections[c].clientId # None}

\* C28: after the close or error event of a connection the clients map
\* holds no entry for it, whatever messages were received before, so no
\* broadcast is sent on a closed connection and getConnectedClients counts
\* the open authenticated connections.
C28_WebSocketCleanup ==
    /\ \A e \in clients : connections[e.ws].state = "open"
    /\ \A channel \in Channels : ChannelRecipients(channel) \subseteq OpenAuthenticated
    /\ PartyRecipients(PartyIds) \subseteq OpenAuthenticated
    /\ getConnectedClients = Cardinality(OpenAuthenticated)

(***************************************************************************)
(* DomainRegistry.  Each function maps the storage before the call to the  *)
(* storage after it; a call that reverts leaves the storage as it was.     *)
(***************************************************************************)
\* modifier onlyDomainAdmin
onlyDomainAdmin(reg, sender, domainId) == reg.domains[domainId].admin = sender

\* modifier domainActive
domainActive(reg, domainId) == reg.domains[domainId].active

registerDomain(reg, sender, domainId, name, timestamp) ==
    IF reg.domains[domainId].createdAt # 0 \/ name = ""
    THEN reg
    ELSE [reg EXCEPT
            !.domains[domainId] = [admin |-> sender, name |-> name, active |-> TRUE,
                                   createdAt |-> timestamp, participantCount |-> 0],
            !.adminDomains[sender] = Append(@, domainId),
            !.totalDomains = @ + 1]

\* addParticipant without its require
addParticipantUnchecked(reg, sender, domainId, participantHint) ==
    IF ~onlyDomainAdmin(reg, sender, domainId) \/ ~domainActive(reg, domainId)
    THEN reg
    ELSE [reg EXCEPT
            !.isParticipant[domainId][participantHint] = TRUE,
            !.domainParticipants[domainId] = Append(@, participantHint),
            !.domains[domainId].participantCount = @ + 1]

addParticipant(reg, sender, domainId, participantHint) ==
    IF \/ ~onlyDomainAdmin(reg, sender, domainId)
       \/ ~domainActive(reg, domainId)
       \/ reg.isParticipant[domainId][participantHint]
    THEN reg
    ELSE [reg EXCEPT
            !.isParticipant[domainId][participantHint] = TRUE,
            !.domainParticipants[domainId] = Append(@, participantHint),
            !.domains[domainId].participantCount = @ + 1]

\* the array is left as it is; participantCount-- is checked arithmetic
\* (solidity ^0.8.19) and reverts at zero
removeParticipant(reg, sender, domainId, participantHint) ==
    IF \/ ~onlyDomainAdmin(reg, sender, domainId)
       \/ ~reg.isParticipant[domainId][participantHint]
       \/ reg.domains[domainId].participantCount = 0
    THEN reg
    ELSE [reg EXCEPT
            !.isParticipant[domainId][participantHint] = FALSE,
            !.domains[domainId].participantCount = @ - 1]

deactivateDomain(reg, sender, domainId) ==
    IF ~onlyDomainAdmin(reg, sender, domainId)
    THEN reg
    ELSE [reg EXCEPT !.domains[domainId].active = FALSE]

transferAdmin(reg, sender, domainId, newAdmin) ==
    IF ~onlyDomainAdmin(reg, sender, domainId) \/ newAdmin = 0
    THEN reg
    ELSE [reg EXCEPT
            !.domains[domainId].admin = newAdmin,
            !.adminDomains[newAdmin] = Append(@, domainId)]

getAdminDomains(reg, admin) == reg.adminDomains[admin]

\* the arrays of the storage stay within MaxListed entries
WithinListed(reg) ==
    /\ \A a \in Addresses : Len(reg.adminDomains[a]) <= MaxListed
    /\ \A d \in RegistryDomainIds : Len(reg.domainParticipants[d]) <= MaxListed

RegisterDomain ==
    /\ \E sender \in Senders, domainId \in RegistryDomainIds, name \in DomainNames,
          timestamp \in BlockTimes :
         /\ domainReg' = registerDomain(domainReg, sender, domainId, name, timestamp)
         /\ WithinListed(domainReg')
    /\ UNCHANGED <<envVars, cmVars, dsVars, sgVars, chainVars, svcVars, wsVars>>

AddParticipant ==
    /\ \E sender \in Senders, domainId \in RegistryDomainIds, participantHint \in Hints :
         /\ domainReg' = addParticipant(domainReg, sender, domainId, participantHint)
         /\ WithinListed(domainReg')
    /\ UNCHANGED <<envVars, cmVars, dsVars, sgVars, chainVars, svcVars, wsVars>>

RemoveParticipant ==
    /\ \E sender \in Senders, domainId \in RegistryDomainIds, participantHint \in Hints :
         domainReg' = removeParticipant(domainReg, sender, domainId, participantHint)
    /\ UNCHANGED <<envVars, cmVars, dsVars, sgVars, chainVars, svcVars, wsVars>>

DeactivateDomain ==
    /\ \E sender \in Senders, domainId \in RegistryDomainIds :
         domainReg' = deactivateDomain(domainReg, sender, domainId)
    /\ UNCHANGED <<envVars, cmVars, dsVars, sgVars, chainVars, svcVars, wsVars>>

TransferAdmin ==
    /\ \E sender \in Senders, domainId \in RegistryDomainIds, newAdmin \in Addresses :
         /\ domainReg' = transferAdmin(domainReg, sender, domainId, newAdmin)
         /\ WithinListed(domainReg')
    /\ UNCHANGED <<envVars, cmVars, dsVars, sgVars, chainVars, svcVars, wsVars>>

NextDomains ==
    RegisterDomain \/ AddParticipant \/ RemoveParticipant \/ DeactivateDomain \/ TransferAdmin

SpecDomains == Init /\ [][NextDomains]_vars

\* the registered domains whose admin is a
DomainsOfAdmin(a) ==
    {d \in RegistryDomainIds : domainReg.domains[d].createdAt > 0 /\ domainReg.domains[d].admin = a}

\* C29: getAdminDomains(a) lists exactly the domains whose current admin is
\* a, each of them once.
C29_AdminDomainIndex ==
    \A a \in Addresses :
        LET listed == getAdminDomains(domainReg, a)
        IN  /\ {listed[i] : i \in DOMAIN listed} = DomainsOfAdmin(a)
            /\ \A i, j \in DOMAIN listed : listed[i] = listed[j] => i = j

\* the hints that are participants of domain d
ParticipantsOf(d) == {h \in Hints : domainReg.isParticipant[d][h]}

\* C30: the participant count of every domain equals the number of hints
\* that are participants of it, and is never negative, whatever was added,
\* removed, added again, or called on a deactivated domain.
C30_ParticipantCount ==
    \A d \in RegistryDomainIds :
        /\ domainReg.domains[d].participantCount = Cardinality(ParticipantsOf(d))
        /\ domainReg.domains[d].participantCount >= 0

\* a deactivated domain where a hint was added, removed, added again and
\* removed again, and another hint is still a participant
C30_Witness ==
    \E d \in RegistryDomainIds, h \in Hints :
        /\ domainReg.domains[d].createdAt > 0
        /\ ~domainReg.domains[d].active
        /\ Cardinality({i \in DOMAIN domainReg.domainParticipants[d] :
                           domainReg.domainParticipants[d][i] = h}) = 2
        /\ ~domainReg.isParticipant[d][h]
        /\ domainReg.domains[d].participantCount = 1

==========================================================================
